---- MODULE Spec2Model ----
(***************************************************************************)
(* A model of the crawl-and-extract pipeline of OGTool.                    *)
(*                                                                         *)
(*  - the crawl scheduler of scrapers/web.py (WebScraper.scrape,           *)
(*    scrape_async, _scrape_sync, get_page, get_page_async): Spec, and     *)
(*    SpecCrawlFair with the scheduling of its loops;                      *)
(*  - the dispatchers UnifiedScraper.scrape_url and                        *)
(*    IntelligentScraper.scrape_url: SpecRoute;                            *)
(*  - URLProcessor.process_url: SpecExpand;                                *)
(*  - the page scraper (scrape_page, _scrape_html, _scrape_javascript,     *)
(*    _scrape_simple_website): SpecPage;                                   *)
(*  - the normalizer (_clean_content): SpecClean;                          *)
(*  - the output formatter (format_output): SpecFormat;                    *)
(*  - the classifier (_determine_content_type): SpecClassify;              *)
(*  - the chunker (_chunk_text): SpecChunk;                                *)
(*  - the Drive pipeline (extract_pdf_urls and its callers): SpecDrive;    *)
(*  - the PDF pipeline (scrape_pdf, _download_pdf): SpecPdf;               *)
(*  - the command-line run (main, scrape_multiple_urls): SpecMain;         *)
(*  - the card-clicking listing scrape (_scrape_listing_page): SpecCards.  *)
(*                                                                         *)
(* Each part has its own specification; the variables of the other parts   *)
(* stay at their initial value under it.                                   *)
(***************************************************************************)
EXTENDS Integers, Sequences, FiniteSets, TLC

VARIABLES
    \* ---- crawl scheduler (scrapers/web.py) ----
    max_pages,        \* WebScraper.max_pages
    max_concurrent,   \* WebScraper.max_concurrent
    site,             \* what the web server answers for each URL, once asked
    visited_urls,     \* self.visited_urls of each scraper instance
    content_cache,    \* self.content_cache of each scraper instance
    cur,              \* the instance whose scrape() is running, or "none"
    pc,               \* position inside the running scrape()
    source,           \* the argument of the running scrape()
    urls_to_scrape,   \* local urls_to_scrape
    items,            \* local items
    new_urls,         \* local new_urls of the current batch
    pending,          \* get_page_async tasks of the batch that have not finished
    soups,            \* results gathered so far for the current batch
    fetched,          \* URLs handed to get_page/get_page_async by the running call
    calls,            \* number of scrape() calls made by the driver
    history,          \* per instance, the finished calls
    page_calls,       \* per instance, the calls of get_page / get_page_async
    \* ---- dispatchers (unified_scraper.py, main.py) ----
    d_who,            \* the dispatcher that was called: "unified" or "intelligent"
    d_url,            \* the URL it was called with
    d_route,          \* the pipeline it handed the URL to
    \* ---- URLProcessor.process_url (url_processor.py) ----
    pu_pc,            \* position inside process_url
    pu_url,           \* its argument
    pu_max_pages,     \* self.max_pages of URLProcessor
    pu_page,          \* page of _handle_pagination
    pu_probes,        \* the page numbers _handle_pagination has probed, in order
    pu_html,          \* html_urls of _extract_from_listing_page
    pu_urls,          \* urls of _extract_from_listing_page
    pu_js,            \* js_urls of _extract_from_listing_page
    pu_paginated,     \* urls of _handle_pagination, in the end paginated_urls
    pu_result,        \* the list process_url returned
    pu_log,           \* the extraction steps taken, in order
    pu_calls,         \* the kinds of network calls made, with their success
    \* ---- page scraper (scraper.py, main.py) ----
    max_retries,      \* WebScraper.max_retries
    sp_pc,            \* position inside scrape_page / _scrape_simple_website
    sp_entry,         \* which of the two was called
    sp_url,           \* its argument
    sp_attempt,       \* attempt of the retry loop of _scrape_html
    sp_content,       \* local content: "none", "empty" or "content"
    sp_result,        \* what the call returned: "nothing" or "record"
    sp_events,        \* the requests, renders and sleeps of the call, in order
    \* ---- normalizer (scraper.py) ----
    cl_input,         \* the text the caller started from
    cl_prev,          \* content before the last call of _clean_content
    cl_content,       \* content, after cl_passes calls of _clean_content
    cl_passes,        \* calls of _clean_content made so far
    \* ---- output formatter (output_formatter.py) ----
    fo_pc,            \* position inside format_output
    fo_items,         \* its argument items
    fo_i,             \* items the loop has been through
    fo_formatted,     \* formatted_items
    \* ---- classifier (scraper.py) ----
    ct_pc,            \* "parsed" before, "classified" after _determine_content_type
    ct_url,           \* its argument url
    ct_title,         \* content.get('title', '')
    ct_result,        \* what it returned
    \* ---- chunker (pdf_scraper.py) ----
    ch_pc,            \* position inside _chunk_text
    chunk_size,       \* PDFScraper.chunk_size
    chunk_overlap,    \* PDFScraper.chunk_overlap
    ch_text,          \* the cleaned text given to _chunk_text
    ch_sentences,     \* sentences
    ch_k,             \* sentences the loop has been through
    ch_chunks,        \* chunks
    current_chunk,    \* current_chunk
    ch_seeds,         \* per finalized chunk: the chunk and the overlap_text after it
    final_chunks,     \* final_chunks, the result
    \* ---- Drive pipeline (main.py, unified_scraper.py, google_drive_handler.py) ----
    gd_pc,            \* position inside the Drive branch
    gd_who,           \* the dispatcher: "unified" or "intelligent"
    gd_url,           \* the Drive URL
    gd_pdf_urls,      \* pdf_urls, what extract_pdf_urls returned
    gd_k,             \* pdf_urls the loop has been through
    gd_runs,          \* the calls of scrape_pdf: URL and returned items
    all_items,        \* all_items, the result
    \* ---- PDF pipeline (pdf_scraper.py) ----
    pdf_pc,           \* position inside scrape_pdf
    pdf_link,         \* url
    pdf_max_retries,  \* self.max_retries of PDFScraper
    pdf_attempt,      \* attempt, the loop variable of _download_pdf
    pdf_gets,         \* the GETs made, in order
    pdf_sleeps,       \* the asyncio.sleep calls, in order
    pdf_content,      \* pdf_content: "None", "empty" (b'') or "bytes"
    text_content,     \* text_content
    pdf_result,       \* what scrape_pdf gave the caller
    \* ---- the command-line run (main.py) ----
    mn_pc,            \* where main() stands
    mn_argv,          \* the URLs of the command line
    mn_k,             \* position of the running loop
    all_page_urls,    \* main(): the pages to scrape
    mn_session,       \* self.session of each object (0: None)
    mn_made,          \* number of sessions created so far
    mn_open,          \* the sessions that are open
    mn_runs,          \* the calls of scrape_url made by scrape_multiple_urls
    scraped_items,    \* all_items of scrape_multiple_urls
    \* ---- the listing-page scrape (scraper.py) ----
    ls_pc,            \* where _scrape_listing_page stands
    card_selectors,   \* the cards found by find_blog_cards
    ls_i,             \* i, the index of the loop
    ls_page,          \* page.url
    ls_items,         \* items
    processed_urls,   \* the URLs extracted so far
    processed_cards   \* the text keys of the cards dealt with

crawlVars == <<max_pages, max_concurrent, site, visited_urls, content_cache, cur,
               pc, source, urls_to_scrape, items, new_urls, pending, soups,
               fetched, calls, history, page_calls>>

routeVars == <<d_who, d_url, d_route>>

expandVars == <<pu_pc, pu_url, pu_max_pages, pu_page, pu_probes, pu_html, pu_urls, pu_js, pu_paginated, pu_result, pu_log, pu_calls>>

pageVars == <<max_retries, sp_pc, sp_entry, sp_url, sp_attempt, sp_content, sp_result,
              sp_events>>

cleanVars == <<cl_input, cl_prev, cl_content, cl_passes>>

formatVars == <<fo_pc, fo_items, fo_i, fo_formatted>>

classifyVars == <<ct_pc, ct_url, ct_title, ct_result>>

chunkVars == <<ch_pc, chunk_size, chunk_overlap, ch_text, ch_sentences, ch_k, ch_chunks, current_chunk, ch_seeds, final_chunks>>

driveVars == <<gd_pc, gd_who, gd_url, gd_pdf_urls, gd_k, gd_runs, all_items>>

pdfVars == <<pdf_pc, pdf_link, pdf_max_retries, pdf_attempt, pdf_gets, pdf_sleeps, pdf_content, text_content, pdf_result>>

mainVars == <<mn_pc, mn_argv, mn_k, all_page_urls, mn_session, mn_made, mn_open, mn_runs, scraped_items>>

cardsVars == <<ls_pc, card_selectors, ls_i, ls_page, ls_items, processed_urls, processed_cards>>

vars == <<crawlVars, routeVars, expandVars, pageVars, cleanVars, formatVars, classifyVars, chunkVars, driveVars, pdfVars, mainVars, cardsVars>>

otherThanCrawl == <<routeVars, expandVars, pageVars, cleanVars, formatVars, classifyVars, chunkVars, driveVars, pdfVars, mainVars, cardsVars>>

otherThanRoute == <<crawlVars, expandVars, pageVars, cleanVars, formatVars, classifyVars, chunkVars, driveVars, pdfVars, mainVars, cardsVars>>

otherThanExpand == <<crawlVars, routeVars, pageVars, cleanVars, formatVars, classifyVars, chunkVars, driveVars, pdfVars, mainVars, cardsVars>>

otherThanPage == <<crawlVars, routeVars, expandVars, cleanVars, formatVars, classifyVars, chunkVars, driveVars, pdfVars, mainVars, cardsVars>>

otherThanClean == <<crawlVars, routeVars, expandVars, pageVars, formatVars, classifyVars, chunkVars, driveVars, pdfVars, mainVars, cardsVars>>

otherThanFormat == <<crawlVars, routeVars, expandVars, pageVars, cleanVars, classifyVars, chunkVars, driveVars, pdfVars, mainVars, cardsVars>>

otherThanClassify == <<crawlVars, routeVars, expandVars, pageVars, cleanVars, formatVars, chunkVars, driveVars, pdfVars, mainVars, cardsVars>>

otherThanChunk == <<crawlVars, routeVars, expandVars, pageVars, cleanVars, formatVars, classifyVars, driveVars, pdfVars, mainVars, cardsVars>>

otherThanDrive == <<crawlVars, routeVars, expandVars, pageVars, cleanVars, formatVars, classifyVars, chunkVars, pdfVars, mainVars, cardsVars>>

otherThanPdf == <<crawlVars, routeVars, expandVars, pageVars, cleanVars, formatVars, classifyVars, chunkVars, driveVars, mainVars, cardsVars>>

otherThanMain == <<crawlVars, routeVars, expandVars, pageVars, cleanVars, formatVars, classifyVars, chunkVars, driveVars, pdfVars, cardsVars>>

otherThanCards == <<crawlVars, routeVars, expandVars, pageVars, cleanVars, formatVars, classifyVars, chunkVars, driveVars, pdfVars, mainVars>>

-----------------------------------------------------------------------------
(* Bounds of the model.                                                    *)

MaxPagesBound == 3     \* max_pages ranges over 0..MaxPagesBound
MaxConcBound == 2      \* max_concurrent ranges over 0..MaxConcBound
MaxCalls == 2          \* scrape() calls made by the driver in one behaviour
MaxRetriesBound == 3   \* max_retries ranges over 0..MaxRetriesBound
MaxLen == 5            \* length of the texts given to the normalizer
MaxPasses == 2         \* calls of _clean_content on one text
MaxItems == 2          \* items given to format_output
MaxSentences == 3      \* sentences of a text given to _chunk_text
MaxChunks == 2         \* items one call of scrape_pdf returns

-----------------------------------------------------------------------------
(* The URL universe of the crawl.  "s", "a", "b" are content pages of the  *)
(* crawled host, "t" is a URL of that host that holds a skip pattern       *)
(* ('/tag/'), "x" is a URL of another host.                                *)

URLs == {"s", "a", "b", "t", "x"}
Seeds == {"s"}

\* the anchors a page can hold: no anchor at all, or any set of content pages
\* next to the navigation anchors "t" and "x"
LinkSets == {{}} \cup { ls \cup {"t", "x"} : ls \in SUBSET {"s", "a", "b"} }

\* the order in which list(links) yields the links of a page
LinkOrder == <<"s", "a", "b", "t", "x">>

netloc(u) == IF u = "x" THEN "other.example" ELSE "site.example"

HasSkipPattern(u) == u = "t"

\* the two scraper objects of benchmark.py: use_async = False and use_async = True
Scrapers == {"sync", "async"}

use_async(i) == i = "async"

\* what a GET of one URL yields: an exception / error status, or a parsed page
\* with its anchors and whether its extracted text is longer than 100 characters
FetchError == [kind |-> "error", links |-> {}, rich |-> FALSE]
Unknown == [kind |-> "unknown", links |-> {}, rich |-> FALSE]
PageOutcomes ==
    {FetchError} \cup
    { [kind |-> "ok", links |-> l, rich |-> r] :
        l \in LinkSets, r \in BOOLEAN }

\* a soup value held by the scraper: None or a parsed page
None == [kind |-> "none", links |-> {}, rich |-> FALSE]

\* an exception that leaves get_page / get_page_async instead of a value
Raised == [kind |-> "raised", links |-> {}, rich |-> FALSE]

Min2(x, y) == IF x <= y THEN x ELSE y

SeqToSet(q) == { q[k] : k \in 1..Len(q) }

InSeq(e, q) == \E k \in 1..Len(q) : q[k] = e

-----------------------------------------------------------------------------
(* Pure helpers of WebScraper.                                             *)

\* find_links: same-domain anchors, deduplicated, as a list
find_links(soup, base_domain) ==
    IF soup.kind # "ok" THEN <<>>
    ELSE SelectSeq(LinkOrder, LAMBDA u : u \in soup.links /\ netloc(u) = base_domain)

should_scrape_url(u, base_domain) ==
    /\ netloc(u) = base_domain
    /\ ~HasSkipPattern(u)

\* the loop "for link in new_links: if ...: urls_to_scrape.append(link)"
RECURSIVE AppendLinks(_, _, _, _)
AppendLinks(queue, links, visited, base_domain) ==
    IF links = <<>> THEN queue
    ELSE LET link == Head(links)
             q2 == IF /\ link \notin visited
                      /\ ~InSeq(link, queue)
                      /\ should_scrape_url(link, base_domain)
                   THEN Append(queue, link)
                   ELSE queue
         IN AppendLinks(q2, Tail(links), visited, base_domain)

\* the body of the result loop for one (url, soup) pair: the item, then the links
ProcessPage(st, url, soup, visited, base_domain, budget) ==
    IF soup.kind # "ok" THEN st
    ELSE [ items |-> IF soup.rich THEN Append(st.items, [source_url |-> url])
                     ELSE st.items,
           queue |-> IF Cardinality(visited) < budget
                     THEN AppendLinks(st.queue, find_links(soup, base_domain),
                                      visited, base_domain)
                     ELSE st.queue ]

\* "for url, soup in zip(new_urls, soups)" of scrape_async, from position k on
RECURSIVE ProcessFrom(_, _, _, _, _, _, _)
ProcessFrom(k, st, batch, results, visited, base_domain, budget) ==
    IF k > Len(batch) THEN st
    ELSE ProcessFrom(k + 1,
                     ProcessPage(st, batch[k], results[k], visited, base_domain, budget),
                     batch, results, visited, base_domain, budget)

ProcessBatchFirstOnly(st, batch, results, visited, base_domain, budget) ==
    IF batch = <<>> THEN st
    ELSE ProcessPage(st, batch[1], results[1], visited, base_domain, budget)

ProcessBatch(st, batch, results, visited, base_domain, budget) ==
    ProcessFrom(1, st, batch, results, visited, base_domain, budget)

BatchSizeNoLimit(conc, queueLen, budget, nVisited) ==
    Min2(queueLen, budget - nVisited)

BatchSizeNoBudget(conc, queueLen, budget, nVisited) ==
    Min2(conc, queueLen)

\* batch_size of scrape_async
BatchSize(conc, queueLen, budget, nVisited) ==
    Min2(Min2(conc, queueLen), budget - nVisited)

MarkVisitedFirstOnly(visited, batch) ==
    visited \cup {batch[1]}

\* "for url in new_urls: self.visited_urls.add(url)" / "self.visited_urls.add(url)"
MarkVisited(visited, batch) ==
    visited \cup SeqToSet(batch)

PageResultNoCatch(cache, url, answer) ==
    IF url \in DOMAIN cache THEN cache[url]
    ELSE IF answer.kind = "ok" THEN answer ELSE Raised

\* what get_page / get_page_async return for url, given the server's answer:
\* the cached value, the parsed page, or None when the request raised
PageResult(cache, url, answer) ==
    IF url \in DOMAIN cache THEN cache[url]
    ELSE IF answer.kind = "ok" THEN answer ELSE None

CacheAfterSuccessOnly(cache, url, result) ==
    IF url \in DOMAIN cache \/ result.kind # "ok" THEN cache
    ELSE (url :> result) @@ cache

\* content_cache after get_page / get_page_async returned result
CacheAfter(cache, url, result) ==
    IF url \in DOMAIN cache \/ result = Raised THEN cache
    ELSE (url :> result) @@ cache

\* the n-th call of get_page / get_page_async for url on one scraper object:
\* the sleep and the request are made only when the URL is not in content_cache
PageCall(earlier, cache, url, result) ==
    [url |-> url, n |-> Cardinality({c \in earlier : c.url = url}) + 1,
     delay |-> url \notin DOMAIN cache, request |-> url \notin DOMAIN cache,
     result |-> result]

\* the answers the server can give for url: fixed once it has been asked
Answers(url) == IF site[url] = Unknown THEN PageOutcomes ELSE {site[url]}

\* the record kept of a finished scrape() call
CallRecord(raised) ==
    [seed |-> source, fetched |-> fetched, visited |-> visited_urls[cur],
     items |-> items, frontier |-> urls_to_scrape, raised |-> raised]

-----------------------------------------------------------------------------
(* The crawl scheduler.                                                    *)

CrawlInit ==
    /\ max_pages \in 0..MaxPagesBound
    /\ max_concurrent \in 0..MaxConcBound
    /\ site = [u \in URLs |-> Unknown]
    /\ visited_urls = [i \in Scrapers |-> {}]
    /\ content_cache = [i \in Scrapers |-> <<>>]
    /\ cur = "none"
    /\ pc = "idle"
    /\ source = "s"
    /\ urls_to_scrape = <<>>
    /\ items = <<>>
    /\ new_urls = <<>>
    /\ pending = {}
    /\ soups = <<>>
    /\ fetched = <<>>
    /\ calls = 0
    /\ history = [i \in Scrapers |-> <<>>]
    /\ page_calls = [i \in Scrapers |-> {}]

\* WebScraper.scrape: the driver calls scrape(seed) on one of the scraper objects
Scrape(i, seed) ==
    /\ pc = "idle"
    /\ calls < MaxCalls
    /\ cur' = i
    /\ source' = seed
    /\ urls_to_scrape' = <<seed>>
    /\ items' = <<>>
    /\ fetched' = <<>>
    /\ new_urls' = <<>>
    /\ soups' = <<>>
    /\ pending' = {}
    /\ calls' = calls + 1
    /\ pc' = "loop"
    /\ UNCHANGED <<max_pages, max_concurrent, site, visited_urls, content_cache, history,
                   page_calls>>
    /\ UNCHANGED otherThanCrawl

LoopGuard(i) ==
    /\ urls_to_scrape # <<>>
    /\ Cardinality(visited_urls[i]) < max_pages

\* the while condition is false: return items
Return ==
    /\ pc = "loop"
    /\ ~LoopGuard(cur)
    /\ history' = [history EXCEPT ![cur] = Append(@, CallRecord(FALSE))]
    /\ pc' = "idle"
    /\ cur' = "none"
    /\ UNCHANGED <<max_pages, max_concurrent, site, visited_urls, content_cache,
                   source, urls_to_scrape, items, new_urls, pending, soups, fetched, calls,
                   page_calls>>
    /\ UNCHANGED otherThanCrawl

\* scrape_async: take a batch, drop visited URLs, mark the rest visited and
\* start one get_page_async task per URL (task k fetches new_urls[k])
AsyncBatch ==
    /\ pc = "loop"
    /\ use_async(cur)
    /\ LoopGuard(cur)
    /\ LET batch_size == BatchSize(max_concurrent, Len(urls_to_scrape), max_pages,
                                   Cardinality(visited_urls[cur]))
           batch_urls == SubSeq(urls_to_scrape, 1, batch_size)
           fresh == SelectSeq(batch_urls, LAMBDA u : u \notin visited_urls[cur])
       IN /\ urls_to_scrape' = SubSeq(urls_to_scrape, batch_size + 1, Len(urls_to_scrape))
          /\ new_urls' = fresh
          /\ IF fresh = <<>>
             THEN UNCHANGED <<visited_urls, pending, soups, fetched, pc>>
             ELSE /\ visited_urls' = [visited_urls EXCEPT ![cur] = MarkVisited(@, fresh)]
                  /\ pending' = 1..Len(fresh)
                  /\ soups' = <<>>
                  /\ fetched' = fetched \o fresh
                  /\ pc' = "gather"
    /\ UNCHANGED <<max_pages, max_concurrent, site, content_cache, cur, source,
                   items, calls, history, page_calls>>
    /\ UNCHANGED otherThanCrawl

\* task k of the batch, get_page_async(session, new_urls[k]), finishes;
\* gather(return_exceptions=True) keeps an exception as the task's result
FetchDone(k) ==
    /\ pc = "gather"
    /\ k \in pending
    /\ \E answer \in Answers(new_urls[k]) :
         LET result == PageResult(content_cache[cur], new_urls[k], answer)
         IN /\ site' = [site EXCEPT ![new_urls[k]] = answer]
            /\ soups' = (k :> result) @@ soups
            /\ content_cache' = [content_cache EXCEPT ![cur] =
                                    CacheAfter(@, new_urls[k], result)]
            /\ page_calls' = [page_calls EXCEPT ![cur] =
                                 @ \cup {PageCall(@, content_cache[cur], new_urls[k], result)}]
    /\ pending' = pending \ {k}
    /\ UNCHANGED <<max_pages, max_concurrent, visited_urls, cur, pc, source,
                   urls_to_scrape, items, new_urls, fetched, calls, history>>
    /\ UNCHANGED otherThanCrawl

\* asyncio.gather has returned: the result loop over zip(new_urls, soups)
AsyncProcess ==
    /\ pc = "gather"
    /\ pending = {}
    /\ LET st == ProcessBatch([items |-> items, queue |-> urls_to_scrape], new_urls,
                              soups, visited_urls[cur], netloc(source), max_pages)
       IN /\ items' = st.items
          /\ urls_to_scrape' = st.queue
    /\ pc' = "loop"
    /\ UNCHANGED <<max_pages, max_concurrent, site, visited_urls, content_cache, cur,
                   source, new_urls, pending, soups, fetched, calls, history, page_calls>>
    /\ UNCHANGED otherThanCrawl

\* _scrape_sync: one iteration of the while loop.  An exception that left
\* get_page would leave _scrape_sync and scrape() as well.
SyncIter ==
    /\ pc = "loop"
    /\ ~use_async(cur)
    /\ LoopGuard(cur)
    /\ LET url == Head(urls_to_scrape)
           rest == Tail(urls_to_scrape)
       IN IF url \in visited_urls[cur]
          THEN /\ urls_to_scrape' = rest
               /\ UNCHANGED <<site, visited_urls, content_cache, items, fetched,
                              pc, cur, history, page_calls>>
          ELSE \E answer \in Answers(url) :
               LET visited == MarkVisited(visited_urls[cur], <<url>>)
                   soup == PageResult(content_cache[cur], url, answer)
                   st == ProcessPage([items |-> items, queue |-> rest], url, soup,
                                     visited, netloc(source), max_pages)
               IN /\ site' = [site EXCEPT ![url] = answer]
                  /\ visited_urls' = [visited_urls EXCEPT ![cur] = visited]
                  /\ content_cache' = [content_cache EXCEPT ![cur] =
                                          CacheAfter(@, url, soup)]
                  /\ page_calls' = [page_calls EXCEPT ![cur] =
                                       @ \cup {PageCall(@, content_cache[cur], url, soup)}]
                  /\ fetched' = Append(fetched, url)
                  /\ IF soup = Raised
                     THEN /\ urls_to_scrape' = rest
                          /\ items' = items
                          /\ history' = [history EXCEPT ![cur] = Append(@,
                                 [seed |-> source, fetched |-> Append(fetched, url),
                                  visited |-> visited, items |-> items,
                                  frontier |-> rest, raised |-> TRUE])]
                          /\ pc' = "idle"
                          /\ cur' = "none"
                     ELSE /\ items' = st.items
                          /\ urls_to_scrape' = st.queue
                          /\ UNCHANGED <<pc, cur, history>>
    /\ UNCHANGED <<max_pages, max_concurrent, source, new_urls, pending, soups, calls>>
    /\ UNCHANGED otherThanCrawl

\* the driver calls get_page(url) on one of the scraper objects, for a URL
\* that this object has crawled before
GetPage(i, url) ==
    /\ pc = "idle"
    /\ calls < MaxCalls
    /\ url \in visited_urls[i]
    /\ \E answer \in Answers(url) :
         LET result == PageResult(content_cache[i], url, answer)
         IN /\ site' = [site EXCEPT ![url] = answer]
            /\ content_cache' = [content_cache EXCEPT ![i] = CacheAfter(@, url, result)]
            /\ page_calls' = [page_calls EXCEPT ![i] =
                                 @ \cup {PageCall(@, content_cache[i], url, result)}]
    /\ calls' = calls + 1
    /\ UNCHANGED <<max_pages, max_concurrent, visited_urls, cur, pc, source,
                   urls_to_scrape, items, new_urls, pending, soups, fetched, history>>
    /\ UNCHANGED otherThanCrawl

CrawlNext ==
    \/ \E i \in Scrapers, seed \in Seeds : Scrape(i, seed)
    \/ \E i \in Scrapers, url \in URLs : GetPage(i, url)
    \/ Return
    \/ AsyncBatch
    \/ \E k \in 1..Len(new_urls) : FetchDone(k)
    \/ AsyncProcess
    \/ SyncIter

-----------------------------------------------------------------------------
(* Strings.  A string is the sequence of its characters, so that substring *)
(* tests, lower-casing and URL parsing are computed, not assumed.          *)

LowerChar(c) ==
    CASE c = "A" -> "a" [] c = "B" -> "b" [] c = "D" -> "d" [] c = "F" -> "f"
      [] c = "P" -> "p" [] OTHER -> c

\* str.lower()
Lower(str) == [k \in 1..Len(str) |-> LowerChar(str[k])]

OccursAt(str, pat, k) ==
    /\ k + Len(pat) - 1 <= Len(str)
    /\ \A j \in 1..Len(pat) : str[k + j - 1] = pat[j]

\* pat in str
Contains(str, pat) == \E k \in 1..(Len(str) - Len(pat) + 1) : OccursAt(str, pat, k)

\* str.endswith(pat)
EndsWith(str, pat) ==
    /\ Len(pat) <= Len(str)
    /\ OccursAt(str, pat, Len(str) - Len(pat) + 1)

\* the first position >= k of str that holds a character of stops, or Len(str) + 1
RECURSIVE IndexFrom(_, _, _)
IndexFrom(str, k, stops) ==
    IF k > Len(str) THEN Len(str) + 1
    ELSE IF str[k] \in stops THEN k
    ELSE IndexFrom(str, k + 1, stops)

Scheme == <<"h", "t", "t", "p", "s", ":", "/", "/">>

\* urlparse(url).netloc, for a URL that starts with Scheme
url_netloc(url) ==
    SubSeq(url, Len(Scheme) + 1, IndexFrom(url, Len(Scheme) + 1, {"/", "?", "#"}) - 1)

\* urlparse(url).path, for a URL that starts with Scheme
url_path(url) ==
    LET from == IndexFrom(url, Len(Scheme) + 1, {"/", "?", "#"})
    IN SubSeq(url, from, IndexFrom(url, from, {"?", "#"}) - 1)

-----------------------------------------------------------------------------
(* The URL heuristics.                                                     *)

\* listing_patterns of URLProcessor._is_listing_page and WebScraper._is_listing_page
ListingPatterns ==
    { <<"/", "b", "l", "o", "g">>,
      <<"/", "p", "o", "s", "t", "s">>,
      <<"/", "a", "r", "t", "i", "c", "l", "e", "s">>,
      <<"/", "t", "o", "p", "i", "c", "s">>,
      <<"/", "l", "e", "a", "r", "n">>,
      <<"/", "c", "a", "t", "e", "g", "o", "r", "y">>,
      <<"/", "t", "a", "g">>,
      <<"/", "a", "r", "c", "h", "i", "v", "e">>,
      <<"/", "s", "e", "a", "r", "c", "h">> }

\* the individual-post patterns of IntelligentScraper.detect_content_type
PostPatterns ==
    { <<"/", "b", "l", "o", "g", "/">>,
      <<"/", "p", "o", "s", "t", "/">>,
      <<"/", "a", "r", "t", "i", "c", "l", "e", "/">>,
      <<"/", "2", "0", "2">>,
      <<"/", "2", "0", "2", "3">>,
      <<"/", "2", "0", "2", "4">>,
      <<"/", "2", "0", "2", "5">>,
      <<"/", "g", "u", "i", "d", "e", "s", "/">>,
      <<"/", "q", "u", "e", "s", "t", "i", "o", "n", "s", "/">>,
      <<"/", "m", "o", "c", "k", "s", "/">> }

\* config.SKIP_URL_PATTERNS
SKIP_URL_PATTERNS ==
    { <<"/", "t", "a", "g", "/">>,
      <<"/", "c", "a", "t", "e", "g", "o", "r", "y", "/">>,
      <<"/", "a", "u", "t", "h", "o", "r", "/">>,
      <<"/", "s", "e", "a", "r", "c", "h">>,
      <<"/", "p", "a", "g", "e", "/">>,
      <<"/", "#">>,
      <<"j", "a", "v", "a", "s", "c", "r", "i", "p", "t", ":">>,
      <<"m", "a", "i", "l", "t", "o", ":">>,
      <<"t", "e", "l", ":">>,
      <<".", "p", "d", "f">>,
      <<".", "j", "p", "g">>,
      <<".", "p", "n", "g">>,
      <<".", "g", "i", "f">>,
      <<".", "c", "s", "s">>,
      <<".", "j", "s">> }

Str_drive == <<"d", "r", "i", "v", "e", ".", "g", "o", "o", "g", "l", "e", ".", "c", "o", "m">>
Str_dotpdf == <<".", "p", "d", "f">>
Str_slashpdf == <<"/", "p", "d", "f">>
Str_pdf == <<"p", "d", "f">>
Str_file == <<"/", "f", "i", "l", "e", "/">>
Str_folders == <<"/", "f", "o", "l", "d", "e", "r", "s", "/">>
Str_slash == <<"/">>

\* URLProcessor._is_listing_page
is_listing_page(url) ==
    \E pat \in ListingPatterns : Contains(Lower(url), pat)

\* WebScraper._is_listing_page (scraper.py)
web_is_listing_page(url) ==
    \E pat \in ListingPatterns : Contains(Lower(url), pat)

\* GoogleDriveHandler.is_google_drive_url
is_google_drive_url(url) == Contains(Lower(url), Str_drive)

\* PDFScraper.is_pdf_url
is_pdf_url(url) ==
    LET url_lower == Lower(url)
    IN \/ EndsWith(url_lower, Str_dotpdf)
       \/ Contains(url_lower, Str_slashpdf) \/ Contains(url_lower, Str_pdf)
       \/ /\ Contains(url_lower, Str_drive)
          /\ Contains(url_lower, Str_file) \/ Contains(url_lower, Str_folders)

\* URLProcessor._is_valid_content_url
is_valid_content_url(url, base_url) ==
    /\ url_netloc(url) = url_netloc(base_url)
    /\ ~\E pat \in SKIP_URL_PATTERNS : Contains(Lower(url), pat)
    /\ url_path(url) # <<>>
    /\ url_path(url) # Str_slash

-----------------------------------------------------------------------------
(* The URLs given to the dispatchers and to URLProcessor.process_url.      *)

UrlHosts ==
    { <<"x", ".", "i", "o">>,
      <<"b", "l", "o", "g", ".", "x", ".", "i", "o">>,
      <<"d", "r", "i", "v", "e", ".", "g", "o", "o", "g", "l", "e", ".", "c", "o", "m">> }

UrlPaths ==
    { <<>>,
      <<"/">>,
      <<"/", "a", "b", "o", "u", "t">>,
      <<"/", "b", "l", "o", "g">>,
      <<"/", "B", "l", "o", "g">>,
      <<"/", "b", "l", "o", "g", "/">>,
      <<"/", "b", "l", "o", "g", "/", "p", "1">>,
      <<"/", "p", "o", "s", "t", "/", "1">>,
      <<"/", "t", "a", "g", "s">>,
      <<"/", "a", ".", "p", "d", "f">>,
      <<"/", "A", ".", "P", "D", "F">>,
      <<"/", "p", "d", "f", "s">>,
      <<"/", "f", "i", "l", "e", "/", "d", "/", "1">>,
      <<"/", "f", "o", "l", "d", "e", "r", "s", "/", "2">>,
      <<"/", "2", "0", "2", "4", "/", "h", "i">>,
      <<"/", "l", "e", "a", "r", "n">> }

UrlTails ==
    { <<>>,
      <<"?", "q", "=", "/", "s", "e", "a", "r", "c", "h">>,
      <<"#", "t", "o", "p">> }

InputUrls == { Scheme \o h \o p \o t : h \in UrlHosts, p \in UrlPaths, t \in UrlTails }

-----------------------------------------------------------------------------
(* The anchors a fetched listing page can hold (absolute URLs).            *)

HrefsFew ==
      { <<"h", "t", "t", "p", "s", ":", "/", "/", "x", ".", "i", "o", "/", "b", "l", "o", "g", "/", "p", "1">>,
        <<"h", "t", "t", "p", "s", ":", "/", "/", "x", ".", "i", "o", "/", "p", "o", "s", "t", "/", "2">>,
        <<"h", "t", "t", "p", "s", ":", "/", "/", "x", ".", "i", "o", "/", "t", "a", "g", "/", "t">>,
        <<"h", "t", "t", "p", "s", ":", "/", "/", "x", ".", "i", "o", "/">>,
        <<"h", "t", "t", "p", "s", ":", "/", "/", "y", ".", "i", "o", "/", "b", "l", "o", "g", "/", "p", "9">> }

HrefsMany ==
      { <<"h", "t", "t", "p", "s", ":", "/", "/", "x", ".", "i", "o", "/", "b", "l", "o", "g", "/", "p", "1">>,
        <<"h", "t", "t", "p", "s", ":", "/", "/", "x", ".", "i", "o", "/", "p", "o", "s", "t", "/", "2">>,
        <<"h", "t", "t", "p", "s", ":", "/", "/", "x", ".", "i", "o", "/", "b", "l", "o", "g", "/", "p", "3">>,
        <<"h", "t", "t", "p", "s", ":", "/", "/", "x", ".", "i", "o", "/", "b", "l", "o", "g", "/", "p", "4">>,
        <<"h", "t", "t", "p", "s", ":", "/", "/", "x", ".", "i", "o", "/", "b", "l", "o", "g", "/", "p", "5">>,
        <<"h", "t", "t", "p", "s", ":", "/", "/", "x", ".", "i", "o", "/", "a", ".", "p", "d", "f">> }

HrefsPageOld ==
      { <<"h", "t", "t", "p", "s", ":", "/", "/", "x", ".", "i", "o", "/", "b", "l", "o", "g", "/", "p", "1">> }

HrefsPageNew ==
      { <<"h", "t", "t", "p", "s", ":", "/", "/", "x", ".", "i", "o", "/", "b", "l", "o", "g", "/", "p", "6">>,
        <<"h", "t", "t", "p", "s", ":", "/", "/", "x", ".", "i", "o", "/", "p", "a", "g", "e", "/", "2">> }

\* what one page can hold
HrefFamilies == {{}, HrefsFew, HrefsMany}

\* what the pagination pages of one listing can hold together
PageHrefFamilies == {{}, HrefsPageOld, HrefsPageNew}

\* the order in which list(urls) yields the URLs of a set
HrefOrder ==
    << <<"h", "t", "t", "p", "s", ":", "/", "/", "x", ".", "i", "o", "/", "b", "l", "o", "g", "/", "p", "1">>,
       <<"h", "t", "t", "p", "s", ":", "/", "/", "x", ".", "i", "o", "/", "p", "o", "s", "t", "/", "2">>,
       <<"h", "t", "t", "p", "s", ":", "/", "/", "x", ".", "i", "o", "/", "t", "a", "g", "/", "t">>,
       <<"h", "t", "t", "p", "s", ":", "/", "/", "x", ".", "i", "o", "/">>,
       <<"h", "t", "t", "p", "s", ":", "/", "/", "y", ".", "i", "o", "/", "b", "l", "o", "g", "/", "p", "9">>,
       <<"h", "t", "t", "p", "s", ":", "/", "/", "x", ".", "i", "o", "/", "b", "l", "o", "g", "/", "p", "3">>,
       <<"h", "t", "t", "p", "s", ":", "/", "/", "x", ".", "i", "o", "/", "b", "l", "o", "g", "/", "p", "4">>,
       <<"h", "t", "t", "p", "s", ":", "/", "/", "x", ".", "i", "o", "/", "b", "l", "o", "g", "/", "p", "5">>,
       <<"h", "t", "t", "p", "s", ":", "/", "/", "x", ".", "i", "o", "/", "a", ".", "p", "d", "f">>,
       <<"h", "t", "t", "p", "s", ":", "/", "/", "x", ".", "i", "o", "/", "b", "l", "o", "g", "/", "p", "6">>,
       <<"h", "t", "t", "p", "s", ":", "/", "/", "x", ".", "i", "o", "/", "p", "a", "g", "e", "/", "2">> >>

valid_urls_unfiltered(hrefs, base_url) == hrefs

\* URLProcessor._parse_urls_from_html, and the filter loop of _extract_urls_javascript
valid_urls(hrefs, base_url) == { h \in hrefs : is_valid_content_url(h, base_url) }

\* list(urls)
ListOf(urls) == SelectSeq(HrefOrder, LAMBDA h : h \in urls)

-----------------------------------------------------------------------------
(* The dispatchers: UnifiedScraper.scrape_url and IntelligentScraper.      *)

unified_route_pdf_first(url) ==
    IF is_pdf_url(url) THEN "pdf"
    ELSE IF is_google_drive_url(url) THEN "drive"
    ELSE IF web_is_listing_page(url) THEN "listing"
    ELSE "single"

\* UnifiedScraper.scrape_url: the pipeline the URL is handed to
unified_route(url) ==
    IF is_google_drive_url(url) THEN "drive"
    ELSE IF is_pdf_url(url) THEN "pdf"
    ELSE IF web_is_listing_page(url) THEN "listing"
    ELSE "single"

HasPostPattern(url) == \E pat \in PostPatterns : Contains(Lower(url), pat)

\* IntelligentScraper.detect_content_type
detect_content_type(url) ==
    IF is_google_drive_url(url) THEN "google_drive"
    ELSE IF is_pdf_url(url) THEN "pdf"
    ELSE IF HasPostPattern(url) THEN "simple_website"
    ELSE IF web_is_listing_page(url) THEN "complex_website"
    ELSE "simple_website"

\* IntelligentScraper.scrape_url: the pipeline the URL is handed to
intelligent_route(url) ==
    LET content_type == detect_content_type(url)
    IN IF content_type = "google_drive" THEN "drive"
       ELSE IF content_type = "pdf" THEN "pdf"
       ELSE IF content_type = "complex_website" THEN "listing"
       ELSE "single"

RouteIdle ==
    /\ d_who = "none"
    /\ d_url = <<>>
    /\ d_route = "none"

ExpandIdle ==
    /\ pu_pc = "idle"
    /\ pu_url = <<>>
    /\ pu_max_pages = 0
    /\ pu_page = 0
    /\ pu_probes = <<>>
    /\ pu_html = {}
    /\ pu_urls = {}
    /\ pu_js = {}
    /\ pu_paginated = {}
    /\ pu_result = <<>>
    /\ pu_log = <<>>
    /\ pu_calls = {}

UnifiedScrapeUrl(url) ==
    /\ d_who' = "unified"
    /\ d_url' = url
    /\ d_route' = unified_route(url)
    /\ UNCHANGED otherThanRoute

IntelligentScrapeUrl(url) ==
    /\ d_who' = "intelligent"
    /\ d_url' = url
    /\ d_route' = intelligent_route(url)
    /\ UNCHANGED otherThanRoute

-----------------------------------------------------------------------------
(* URLProcessor.process_url.                                               *)

SinglePageLower(url) == <<Lower(url)>>

NeedsJsUpToFive(html_urls) == Cardinality(html_urls) <= 5

\* "if len(html_urls) < 5"
NeedsJs(html_urls) == Cardinality(html_urls) < 5

PageDigits(page) == <<(<<"1", "2", "3", "4", "5", "6", "7", "8", "9">>)[page]>>

\* the URLs _try_pagination_patterns tries for a page number
pagination_patterns(base_url, page) ==
    << base_url \o <<"?", "p", "a", "g", "e", "=">> \o PageDigits(page),
       base_url \o <<"?", "p", "=">> \o PageDigits(page),
       base_url \o <<"/", "p", "a", "g", "e", "/">> \o PageDigits(page),
       base_url \o <<"/", "p", "/">> \o PageDigits(page),
       base_url \o <<"?", "p", "g", "=">> \o PageDigits(page),
       base_url \o <<"?", "p", "a", "g", "i", "n", "a", "t", "i", "o", "n", "=">> \o PageDigits(page) >>

\* "return [url]"
SinglePage(url) == <<url>>

\* process_url is called: a URL that is no listing page is returned as it is
ProcessUrl(url) ==
    /\ pu_pc = "idle"
    /\ pu_url' = url
    /\ pu_html' = {}
    /\ pu_urls' = {}
    /\ pu_js' = {}
    /\ pu_paginated' = {}
    /\ pu_page' = 1
    /\ pu_probes' = <<>>
    /\ pu_calls' = {}
    /\ UNCHANGED pu_max_pages
    /\ IF is_listing_page(url)
       THEN /\ pu_pc' = "html"
            /\ pu_result' = <<>>
            /\ pu_log' = <<>>
       ELSE /\ pu_pc' = "done"
            /\ pu_result' = SinglePage(url)
            /\ pu_log' = <<>>
    /\ UNCHANGED otherThanExpand

extract_urls_html_uncaught(ok, links) ==
    [raised |-> ~ok, urls |-> IF ok THEN links ELSE {}]

\* _extract_urls_html: the links of the page when the GET answers 200; an
\* exception is printed and, like any other status, gives the empty set
extract_urls_html(ok, links) ==
    [raised |-> FALSE, urls |-> IF ok THEN links ELSE {}]

\* _extract_urls_javascript: the links of the rendered page; any exception
\* gives the empty set
extract_urls_javascript(ok, links) ==
    [raised |-> FALSE, urls |-> IF ok THEN links ELSE {}]

\* _extract_from_listing_page, first step: _extract_urls_html(url)
ExtractHtml ==
    /\ pu_pc = "html"
    /\ \E ok \in BOOLEAN, hrefs \in HrefFamilies :
         LET got == extract_urls_html(ok, valid_urls(hrefs, pu_url))
         IN /\ ~ok => hrefs = {}
            /\ pu_html' = got.urls
            /\ pu_urls' = got.urls
            /\ pu_pc' = IF got.raised THEN "raised"
                        ELSE IF NeedsJs(got.urls) THEN "js" ELSE "pagination"
            /\ pu_calls' = pu_calls \cup {[call |-> "html", ok |-> ok]}
    /\ pu_log' = Append(pu_log, "html")
    /\ UNCHANGED <<pu_url, pu_max_pages, pu_page, pu_probes, pu_js, pu_paginated, pu_result>>
    /\ UNCHANGED otherThanExpand

\* second step: _extract_urls_javascript(url)
ExtractJs ==
    /\ pu_pc = "js"
    /\ \E ok \in BOOLEAN, hrefs \in HrefFamilies :
         LET got == extract_urls_javascript(ok, valid_urls(hrefs, pu_url))
         IN /\ ~ok => hrefs = {}
            /\ pu_js' = got.urls
            /\ pu_urls' = pu_urls \cup got.urls
            /\ pu_pc' = IF got.raised THEN "raised" ELSE "pagination"
            /\ pu_calls' = pu_calls \cup {[call |-> "js", ok |-> ok]}
    /\ pu_log' = Append(pu_log, "js")
    /\ UNCHANGED <<pu_url, pu_max_pages, pu_page, pu_probes, pu_html, pu_paginated, pu_result>>
    /\ UNCHANGED otherThanExpand

\* the pagination URLs of a page number that answer the HEAD check of
\* _url_exists with 200 (by position in the pattern list): none of the six, or
\* the first and the third
PatternSets == {{}, {1, 3}}

MorePagesOneMore(page, last_page) == page <= last_page + 1

\* "while page <= self.max_pages"
MorePages(page, last_page) == page <= last_page

\* "if not urls - existing_urls: break"
NothingNew(urls, existing_urls) == urls \ existing_urls = {}

\* _handle_pagination(url, urls): one pass of the loop for page number pu_page.
\* The links of every existing pagination URL are filtered with that URL as
\* base_url and added to urls; existing_urls is the set the call was given
PaginationPage ==
    /\ pu_pc = "pagination"
    /\ MorePages(pu_page, pu_max_pages)
    /\ \E exist \in PatternSets, ok \in BOOLEAN, hrefs \in PageHrefFamilies :
         LET pagination_urls == { pagination_patterns(pu_url, pu_page)[k] : k \in exist }
             got == { extract_urls_html(ok, valid_urls(hrefs, u)) : u \in pagination_urls }
             page_urls == UNION { g.urls : g \in got }
             urls == pu_paginated \cup page_urls
         IN /\ (exist = {} \/ ~ok) => hrefs = {}
            /\ exist = {} => ok
            /\ pu_calls' = pu_calls \cup {[call |-> "head", ok |-> exist # {}]}
                               \cup {[call |-> "page", ok |-> ok] : u \in pagination_urls}
            /\ pu_probes' = Append(pu_probes,
                                   [page |-> pu_page, candidates |-> exist,
                                    added |-> page_urls \ (pu_urls \cup pu_paginated)])
            /\ pu_paginated' = urls
            /\ IF \E g \in got : g.raised
               THEN pu_pc' = "raised" /\ UNCHANGED pu_page
               ELSE IF pagination_urls = {} \/ NothingNew(urls, pu_urls)
                    THEN pu_pc' = "paginated" /\ UNCHANGED pu_page
                    ELSE pu_page' = pu_page + 1 /\ UNCHANGED pu_pc
    /\ UNCHANGED <<pu_url, pu_max_pages, pu_html, pu_js, pu_urls, pu_result, pu_log>>
    /\ UNCHANGED otherThanExpand

\* the loop condition is false: "return urls"
PaginationEnd ==
    /\ pu_pc = "pagination"
    /\ ~MorePages(pu_page, pu_max_pages)
    /\ pu_pc' = "paginated"
    /\ UNCHANGED <<pu_url, pu_max_pages, pu_page, pu_probes, pu_html, pu_js, pu_urls,
                   pu_paginated, pu_result, pu_log, pu_calls>>
    /\ UNCHANGED otherThanExpand

\* last step: "urls.update(paginated_urls)" and "return list(urls)"
Paginate ==
    /\ pu_pc = "paginated"
    /\ pu_urls' = pu_urls \cup pu_paginated
    /\ pu_result' = ListOf(pu_urls \cup pu_paginated)
    /\ pu_pc' = "done"
    /\ pu_log' = Append(pu_log, "pagination")
    /\ UNCHANGED <<pu_url, pu_max_pages, pu_page, pu_probes, pu_html, pu_js, pu_paginated,
                   pu_calls>>
    /\ UNCHANGED otherThanExpand

RouteNext ==
    \/ \E url \in InputUrls : UnifiedScrapeUrl(url)
    \/ \E url \in InputUrls : IntelligentScrapeUrl(url)

ExpandNext ==
    \/ \E url \in InputUrls : ProcessUrl(url)
    \/ ExtractHtml
    \/ ExtractJs
    \/ PaginationPage
    \/ PaginationEnd
    \/ Paginate

-----------------------------------------------------------------------------
(* The page scraper: WebScraper.scrape_page, _scrape_html and              *)
(* _scrape_javascript of scraper.py, and                                   *)
(* IntelligentScraper._scrape_simple_website of main.py.                   *)

\* a page that matches no listing pattern, a listing page, and a post below it
PageUrls ==
    { <<"h", "t", "t", "p", "s", ":", "/", "/", "x", ".", "i", "o", "/", "a", "b", "o", "u", "t">>,
      <<"h", "t", "t", "p", "s", ":", "/", "/", "x", ".", "i", "o", "/", "b", "l", "o", "g">>,
      <<"h", "t", "t", "p", "s", ":", "/", "/", "x", ".", "i", "o", "/", "b", "l", "o", "g", "/", "p", "1">> }

\* what one pass of the body of the retry loop of _scrape_html can meet:
\* session.get raises; a status other than 200; status 200 and a page with
\* content; status 200 and a page without content; status 200 and an exception
\* while the body is read or parsed (the try block encloses both)
GetOutcomes == {"raise", "status_other", "ok_content", "ok_empty", "ok_readfail"}

\* what _scrape_javascript can meet: the browser cannot be launched, a later
\* step of the render (goto, content) raises, a page with content, a page
\* without
RenderOutcomes == {"launch_fail", "raise", "content", "empty"}

Event(ev, n, out) == [ev |-> ev, url |-> sp_url, n |-> n, out |-> out]

MoreAttemptsOffByOne(attempt, retries) == attempt <= retries

\* "for attempt in range(self.max_retries)"
MoreAttempts(attempt, retries) == attempt < retries

\* "if not content or not content.get('content')": escalate to the render
AfterStatic(content) ==
    IF content \in {"none", "empty"} THEN "render" ELSE "finish"

PageIdle ==
    /\ max_retries = 0
    /\ sp_pc = "idle"
    /\ sp_entry = "none"
    /\ sp_url = <<>>
    /\ sp_attempt = 0
    /\ sp_content = "unset"
    /\ sp_result = "unset"
    /\ sp_events = <<>>

PageInit ==
    /\ max_retries \in 0..MaxRetriesBound
    /\ sp_pc = "idle"
    /\ sp_entry = "none"
    /\ sp_url = <<>>
    /\ sp_attempt = 0
    /\ sp_content = "unset"
    /\ sp_result = "unset"
    /\ sp_events = <<>>

\* WebScraper.scrape_page(url, user_id) is called
ScrapePage(url) ==
    /\ sp_pc = "idle"
    /\ sp_entry' = "scrape_page"
    /\ sp_url' = url
    /\ sp_attempt' = 0
    /\ sp_content' = "unset"
    /\ sp_result' = "unset"
    /\ sp_events' = <<>>
    /\ sp_pc' = IF web_is_listing_page(url) THEN "listing" ELSE "static"
    /\ UNCHANGED max_retries
    /\ UNCHANGED otherThanPage

\* IntelligentScraper._scrape_simple_website(url, user_id) is called
ScrapeSimpleWebsite(url) ==
    /\ sp_pc = "idle"
    /\ sp_entry' = "simple_website"
    /\ sp_url' = url
    /\ sp_attempt' = 0
    /\ sp_content' = "unset"
    /\ sp_result' = "unset"
    /\ sp_events' = <<>>
    /\ sp_pc' = "static"
    /\ UNCHANGED max_retries
    /\ UNCHANGED otherThanPage

\* _scrape_html: one pass of the retry loop
StaticAttempt ==
    /\ sp_pc = "static"
    /\ MoreAttempts(sp_attempt, max_retries)
    /\ \E out \in GetOutcomes :
         LET get == Event("get", sp_attempt + 1, out)
         IN CASE out \in {"ok_content", "ok_empty"} ->
                   LET content == IF out = "ok_content" THEN "content" ELSE "empty"
                   IN /\ sp_content' = content
                      /\ sp_events' = sp_events \o <<get, Event("static_return", 0, content)>>
                      /\ sp_pc' = AfterStatic(content)
                      /\ UNCHANGED sp_attempt
              [] out = "status_other" ->
                   /\ sp_events' = Append(sp_events, get)
                   /\ sp_attempt' = sp_attempt + 1
                   /\ UNCHANGED <<sp_content, sp_pc>>
              [] OTHER ->
                   /\ sp_events' = IF sp_attempt < max_retries - 1
                                   THEN sp_events \o <<get, Event("backoff", sp_attempt + 1, "sleep")>>
                                   ELSE Append(sp_events, get)
                   /\ sp_attempt' = sp_attempt + 1
                   /\ UNCHANGED <<sp_content, sp_pc>>
    /\ UNCHANGED <<max_retries, sp_entry, sp_url, sp_result>>
    /\ UNCHANGED otherThanPage

\* _scrape_html: the loop is over, "return None"
StaticGiveUp ==
    /\ sp_pc = "static"
    /\ ~MoreAttempts(sp_attempt, max_retries)
    /\ sp_content' = "none"
    /\ sp_events' = Append(sp_events, Event("static_return", 0, "none"))
    /\ sp_pc' = AfterStatic("none")
    /\ UNCHANGED <<max_retries, sp_entry, sp_url, sp_attempt, sp_result>>
    /\ UNCHANGED otherThanPage

scrape_javascript_uncaught(out) == out

\* what _scrape_javascript returns: "except Exception: return None"
scrape_javascript(out) == IF out \in {"launch_fail", "raise"} THEN "none" ELSE out

\* _scrape_javascript: one render, every exception caught and turned into None
Render ==
    /\ sp_pc = "render"
    /\ \E out \in RenderOutcomes :
         /\ sp_content' = scrape_javascript(out)
         /\ sp_events' = Append(sp_events, Event("render", 1, out))
    /\ sp_pc' = "finish"
    /\ UNCHANGED <<max_retries, sp_entry, sp_url, sp_attempt, sp_result>>
    /\ UNCHANGED otherThanPage

\* the rest of scrape_page / _scrape_simple_website: None (or []) without
\* content, else the record; scrape_page sleeps self.delay before it returns it
Finish ==
    /\ sp_pc = "finish"
    /\ IF sp_content \in {"none", "empty"}
       THEN /\ sp_result' = "nothing"
            /\ UNCHANGED sp_events
       ELSE /\ sp_result' = "record"
            /\ sp_events' = IF sp_entry = "scrape_page"
                            THEN Append(sp_events, Event("delay", 1, "sleep"))
                            ELSE sp_events
    /\ sp_pc' = "done"
    /\ UNCHANGED <<max_retries, sp_entry, sp_url, sp_attempt, sp_content>>
    /\ UNCHANGED otherThanPage

\* scrape_page on a listing URL: _scrape_listing_page renders the URL in a
\* browser and returns the records of the cards (here: whether there is one);
\* scrape_page returns the first of them, or None
ScrapeListing ==
    /\ sp_pc = "listing"
    /\ \E out \in RenderOutcomes :
         /\ sp_events' = Append(sp_events, Event("render", 1, out))
         /\ sp_result' = IF out = "content" THEN "record" ELSE "nothing"
    /\ sp_pc' = "done"
    /\ UNCHANGED <<max_retries, sp_entry, sp_url, sp_attempt, sp_content>>
    /\ UNCHANGED otherThanPage

\* the caller takes the result; the scraper can be called again
PageReturn ==
    /\ sp_pc = "done"
    /\ sp_pc' = "idle"
    /\ UNCHANGED <<max_retries, sp_entry, sp_url, sp_attempt, sp_content, sp_result,
                   sp_events>>
    /\ UNCHANGED otherThanPage

PageNext ==
    \/ \E url \in PageUrls : ScrapePage(url)
    \/ \E url \in PageUrls : ScrapeSimpleWebsite(url)
    \/ StaticAttempt
    \/ StaticGiveUp
    \/ Render
    \/ Finish
    \/ ScrapeListing
    \/ PageReturn

-----------------------------------------------------------------------------
(* The normalizer: WebScraper._clean_content and                           *)
(* _improve_markdown_formatting of scraper.py, on plain text (content      *)
(* without both '<' and '>'; HTML goes through the markdownify library     *)
(* first).  Text is a sequence of characters and every re.sub is computed  *)
(* as the regex engine computes it: leftmost match, greedy with            *)
(* backtracking, matches that do not overlap.                              *)

NL == "\n"

TextChars == {NL, " ", "a", "#", "-"}

Texts == UNION { [1..n -> TextChars] : n \in 0..MaxLen }

\* \s
IsSpace(c) == c \in {" ", NL}

\* [-*+]
IsBullet(c) == c \in {"-", "*", "+"}

\* [^\n#\-\*\+]
IsParagraphStart(c) == c \notin {NL, "#", "-", "*", "+"}

\* the character class a greedy repetition runs over
InClass(class, c) ==
    CASE class = "space" -> IsSpace(c)
      [] class = "blank" -> c = " "
      [] class = "newline" -> c = NL
      [] class = "hash" -> c = "#"
      [] class = "not_newline" -> c # NL

\* the end of the longest run of the class that starts at i (i - 1: empty run)
RunEnd(s, i, class) ==
    LET stops == { k \in i..Len(s) : ~InClass(class, s[k]) }
    IN IF stops = {} THEN Len(s) ELSE (CHOOSE k \in stops : \A j \in stops : k <= j) - 1

\* \s+[^\n]+ from position t: \s+ takes the longest run of white space that
\* leaves a character other than a newline behind it; 0 when there is none
MarkerTextEnd(s, t) ==
    LET w == RunEnd(s, t, "space")
        ends == { m \in t..w : m + 1 <= Len(s) /\ s[m + 1] # NL }
    IN IF ends = {} THEN 0
       ELSE RunEnd(s, (CHOOSE m \in ends : \A j \in ends : j <= m) + 1, "not_newline")

\* the end of the match of the pattern that starts at i, 0 when none does
MatchEnd(rule, s, i) ==
    CASE rule = "blank_lines" ->          \* \n\s*\n\s*\n
           LET nls == { k \in i..RunEnd(s, i, "space") : s[k] = NL }
           IN IF s[i] = NL /\ Cardinality(nls) >= 3
              THEN CHOOSE k \in nls : \A j \in nls : j <= k
              ELSE 0
      [] rule = "spaces" ->               \* " +"
           IF s[i] = " " THEN RunEnd(s, i, "blank") ELSE 0
      [] rule = "newlines" ->             \* \n{3,}
           IF s[i] = NL /\ RunEnd(s, i, "newline") >= i + 2
           THEN RunEnd(s, i, "newline") ELSE 0
      [] rule = "header" ->               \* \n#+\s+[^\n]+
           IF s[i] = NL /\ i + 1 <= Len(s) /\ s[i + 1] = "#"
           THEN MarkerTextEnd(s, RunEnd(s, i + 1, "hash") + 1) ELSE 0
      [] rule = "list" ->                 \* \n[-*+]\s+[^\n]+
           IF s[i] = NL /\ i + 1 <= Len(s) /\ IsBullet(s[i + 1])
           THEN MarkerTextEnd(s, i + 2) ELSE 0
      [] rule = "paragraph" ->            \* \n\n[^\n#\-\*\+][^\n]*\n[^\n#\-\*\+][^\n]*
           IF /\ s[i] = NL
              /\ i + 2 <= Len(s)
              /\ s[i + 1] = NL
              /\ IsParagraphStart(s[i + 2])
           THEN LET e == RunEnd(s, i + 3, "not_newline")
                IN IF e + 2 <= Len(s) /\ IsParagraphStart(s[e + 2])
                   THEN RunEnd(s, e + 3, "not_newline") ELSE 0
           ELSE 0
      [] rule = "trailing" ->             \* \n+$
           IF s[i] = NL /\ RunEnd(s, i, "newline") = Len(s) THEN Len(s) ELSE 0

\* what the match m is replaced by
Replacement(rule, m) ==
    CASE rule = "blank_lines" -> <<NL, NL>>
      [] rule = "spaces" -> <<" ">>
      [] rule = "newlines" -> <<NL, NL>>
      [] rule = "header" -> <<NL, NL>> \o m \o <<NL>>
      [] rule = "list" -> <<NL>> \o m
      [] rule = "paragraph" -> m \o <<NL>>
      [] rule = "trailing" -> <<NL, NL>>

RECURSIVE SubFrom(_, _, _)
SubFrom(rule, s, i) ==
    IF i > Len(s) THEN <<>>
    ELSE LET e == MatchEnd(rule, s, i)
         IN IF e >= i
            THEN Replacement(rule, SubSeq(s, i, e)) \o SubFrom(rule, s, e + 1)
            ELSE <<s[i]>> \o SubFrom(rule, s, i + 1)

\* re.sub(pattern, replacement, s)
Sub(rule, s) == SubFrom(rule, s, 1)

\* str.strip()
Strip(s) ==
    LET keep == { k \in 1..Len(s) : ~IsSpace(s[k]) }
    IN IF keep = {} THEN <<>>
       ELSE SubSeq(s, CHOOSE k \in keep : \A j \in keep : k <= j,
                      CHOOSE k \in keep : \A j \in keep : j <= k)

improve_markdown_formatting(content) ==
    Sub("trailing", Sub("paragraph", Sub("list", Sub("header", content))))

clean_content(content) ==
    IF content = <<>> THEN <<>>
    ELSE Strip(improve_markdown_formatting(
               Sub("newlines", Sub("spaces", Sub("blank_lines", content)))))

CleanIdle ==
    /\ cl_input = <<>>
    /\ cl_prev = <<>>
    /\ cl_content = <<>>
    /\ cl_passes = MaxPasses

CleanInit ==
    /\ cl_input \in Texts
    /\ cl_prev = cl_input
    /\ cl_content = cl_input
    /\ cl_passes = 0

\* content = self._clean_content(content)
CleanContent ==
    /\ cl_passes < MaxPasses
    /\ cl_prev' = cl_content
    /\ cl_content' = clean_content(cl_content)
    /\ cl_passes' = cl_passes + 1
    /\ UNCHANGED cl_input
    /\ UNCHANGED otherThanClean

CleanNext == CleanContent

-----------------------------------------------------------------------------
(* The output formatter: OutputFormatter of output_formatter.py.  An item  *)
(* is a dict: the record of its values and the set "has" of the keys that  *)
(* are present; strings are sequences of characters.                       *)

MIN_CONTENT_LENGTH == 50

\* c * n
Rep(c, n) == [k \in 1..n |-> c]

Str_other == <<"o", "t", "h", "e", "r">>

\* content_type_mapping, in the order of the dict
content_type_mapping ==
    << [key |-> <<"b", "l", "o", "g">>, value |-> <<"b", "l", "o", "g">>],
       [key |-> <<"p", "d", "f">>, value |-> <<"b", "o", "o", "k">>],
       [key |-> <<"a", "r", "t", "i", "c", "l", "e">>, value |-> <<"b", "l", "o", "g">>],
       [key |-> <<"p", "o", "s", "t">>, value |-> <<"b", "l", "o", "g">>],
       [key |-> <<"l", "i", "n", "k", "e", "d", "i", "n">>, value |-> <<"l", "i", "n", "k", "e", "d", "i", "n", "_", "p", "o", "s", "t">>],
       [key |-> <<"r", "e", "d", "d", "i", "t">>, value |-> <<"r", "e", "d", "d", "i", "t", "_", "c", "o", "m", "m", "e", "n", "t">>],
       [key |-> <<"p", "o", "d", "c", "a", "s", "t">>, value |-> <<"p", "o", "d", "c", "a", "s", "t", "_", "t", "r", "a", "n", "s", "c", "r", "i", "p", "t">>],
       [key |-> <<"c", "a", "l", "l">>, value |-> <<"c", "a", "l", "l", "_", "t", "r", "a", "n", "s", "c", "r", "i", "p", "t">>],
       [key |-> <<"t", "r", "a", "n", "s", "c", "r", "i", "p", "t">>, value |-> <<"c", "a", "l", "l", "_", "t", "r", "a", "n", "s", "c", "r", "i", "p", "t">>],
       [key |-> <<"b", "o", "o", "k">>, value |-> <<"b", "o", "o", "k">>],
       [key |-> <<"d", "o", "c", "u", "m", "e", "n", "t">>, value |-> <<"b", "o", "o", "k">>],
       [key |-> <<"o", "t", "h", "e", "r">>, value |-> <<"o", "t", "h", "e", "r">>] >>

\* valid_content_types of test_output_format.py
valid_content_types ==
    { <<"b", "l", "o", "g">>,
      <<"p", "o", "d", "c", "a", "s", "t", "_", "t", "r", "a", "n", "s", "c", "r", "i", "p", "t">>,
      <<"c", "a", "l", "l", "_", "t", "r", "a", "n", "s", "c", "r", "i", "p", "t">>,
      <<"l", "i", "n", "k", "e", "d", "i", "n", "_", "p", "o", "s", "t">>,
      <<"r", "e", "d", "d", "i", "t", "_", "c", "o", "m", "m", "e", "n", "t">>,
      <<"b", "o", "o", "k">>,
      <<"o", "t", "h", "e", "r">> }

map_content_type_or_itself(content_type) ==
    LET exact == { k \in 1..Len(content_type_mapping) :
                     content_type_mapping[k].key = content_type }
    IN IF exact # {} THEN content_type_mapping[CHOOSE k \in exact : TRUE].value
       ELSE content_type

\* _map_content_type: the exact key, else the first key (in dict order) that
\* occurs in the lower-cased string, else 'other'
map_content_type(content_type) ==
    LET exact == { k \in 1..Len(content_type_mapping) :
                     content_type_mapping[k].key = content_type }
        partial == { k \in 1..Len(content_type_mapping) :
                       Contains(Lower(content_type), content_type_mapping[k].key) }
    IN IF exact # {} THEN content_type_mapping[CHOOSE k \in exact : TRUE].value
       ELSE IF partial # {}
            THEN content_type_mapping[CHOOSE k \in partial : \A j \in partial : k <= j].value
            ELSE Str_other

\* item.get(key, default)
Get(item, key, default) == IF key \in item.has THEN item[key] ELSE default

\* the dict built by _format_item
formatted_item(item) ==
    [title |-> Get(item, "title", <<>>),
     content |-> Get(item, "content", <<>>),
     content_type |-> map_content_type(Get(item, "content_type", Str_other)),
     source_url |-> Get(item, "source_url", <<>>),
     author |-> Get(item, "author", <<>>),
     user_id |-> Get(item, "user_id", <<>>)]

is_valid_item_any_length(item) ==
    /\ Strip(item.title) # <<>>
    /\ Strip(item.content) # <<>>

\* _is_valid_item, on the dict built by _format_item (every key is present)
is_valid_item(item) ==
    /\ Strip(item.title) # <<>>
    /\ Strip(item.content) # <<>>
    /\ ~(Len(item.content) < MIN_CONTENT_LENGTH)

\* the items given to format_output
ItemTitles == { <<>>, <<" ">>, <<"T">> }

ItemContents == { <<>>, Rep(" ", MIN_CONTENT_LENGTH), Rep("a", MIN_CONTENT_LENGTH - 1),
                  Rep("a", MIN_CONTENT_LENGTH) }

ItemUrls == { <<>>, <<"u">> }

ItemContentTypes ==
    { <<"b", "l", "o", "g">>,
      <<"p", "d", "f">>,
      <<"P", "D", "F">>,
      <<"B", "l", "o", "g">>,
      <<"v", "i", "d", "e", "o">>,
      <<"m", "y", " ", "p", "o", "d", "c", "a", "s", "t">>,
      <<"l", "i", "n", "k", "e", "d", "i", "n", "_", "p", "o", "s", "t">>,
      <<"r", "e", "d", "d", "i", "t", " ", "p", "o", "s", "t">>,
      <<"t", "r", "a", "n", "s", "c", "r", "i", "p", "t">>,
      <<>> }

AllKeys == {"title", "content", "content_type", "source_url", "author", "user_id"}

Item(has, title, content, content_type, source_url) ==
    [has |-> has, title |-> title, content |-> content, content_type |-> content_type,
     source_url |-> source_url, author |-> <<>>, user_id |-> <<"u", "1">>]

\* every combination of title, content and source_url, present or missing,
\* and every content type on an item that is valid otherwise
ItemUniverse ==
    { Item(AllKeys \ {"author"}, t, c, <<"b", "l", "o", "g">>, u) :
        t \in ItemTitles, c \in ItemContents, u \in ItemUrls }
    \cup { Item(AllKeys \ missing, <<"T">>, Rep("a", MIN_CONTENT_LENGTH), <<"b", "l", "o", "g">>, <<"u">>) :
             missing \in {{"title"}, {"content"}, {"source_url"}, {"content_type"}} }
    \cup { Item(AllKeys, <<"T">>, Rep("a", MIN_CONTENT_LENGTH), ct, <<"u">>) :
             ct \in ItemContentTypes }

ItemLists == UNION { [1..n -> ItemUniverse] : n \in 0..MaxItems }

FormatIdle ==
    /\ fo_pc = "idle"
    /\ fo_items = <<>>
    /\ fo_i = 0
    /\ fo_formatted = <<>>

\* format_output(team_id, items) is called: formatted_items = []
FormatInit ==
    /\ fo_pc = "loop"
    /\ fo_items \in ItemLists
    /\ fo_i = 0
    /\ fo_formatted = <<>>

\* one pass of "for item in items"
FormatItem ==
    /\ fo_pc = "loop"
    /\ fo_i < Len(fo_items)
    /\ fo_i' = fo_i + 1
    /\ fo_formatted' =
         IF is_valid_item(formatted_item(fo_items[fo_i + 1]))
         THEN Append(fo_formatted, formatted_item(fo_items[fo_i + 1]))
         ELSE fo_formatted
    /\ UNCHANGED <<fo_pc, fo_items>>
    /\ UNCHANGED otherThanFormat

\* return {"team_id": team_id, "items": formatted_items}
FormatReturn ==
    /\ fo_pc = "loop"
    /\ fo_i = Len(fo_items)
    /\ fo_pc' = "done"
    /\ UNCHANGED <<fo_items, fo_i, fo_formatted>>
    /\ UNCHANGED otherThanFormat

FormatNext ==
    \/ FormatItem
    \/ FormatReturn

-----------------------------------------------------------------------------
(* The classifier: WebScraper._determine_content_type of scraper.py.       *)

\* CONTENT_TYPE_PATTERNS of config.py, in the order of the dict
CONTENT_TYPE_PATTERNS ==
    << [content_type |-> "blog", patterns |-> <<<<"b", "l", "o", "g">>, <<"p", "o", "s", "t">>, <<"a", "r", "t", "i", "c", "l", "e">>>>],
       [content_type |-> "podcast_transcript", patterns |-> <<<<"p", "o", "d", "c", "a", "s", "t">>, <<"t", "r", "a", "n", "s", "c", "r", "i", "p", "t">>>>],
       [content_type |-> "linkedin_post", patterns |-> <<<<"l", "i", "n", "k", "e", "d", "i", "n", ".", "c", "o", "m">>>>],
       [content_type |-> "reddit_comment", patterns |-> <<<<"r", "e", "d", "d", "i", "t", ".", "c", "o", "m">>>>],
       [content_type |-> "book", patterns |-> <<<<"b", "o", "o", "k">>>>],
       [content_type |-> "call_transcript", patterns |-> <<<<"c", "a", "l", "l">>, <<"t", "r", "a", "n", "s", "c", "r", "i", "p", "t">>>>],
       [content_type |-> "other", patterns |-> <<>>] >>

\* "for pattern in patterns: if pattern in url_lower or pattern in title_lower"
PatternOccurs(patterns, url_lower, title_lower) ==
    \E p \in 1..Len(patterns) :
        Contains(url_lower, patterns[p]) \/ Contains(title_lower, patterns[p])

\* "for content_type, patterns in CONTENT_TYPE_PATTERNS.items()", from entry k
RECURSIVE ClassifyFrom(_, _, _)
ClassifyFrom(k, url_lower, title_lower) ==
    IF k > Len(CONTENT_TYPE_PATTERNS) THEN "other"
    ELSE IF CONTENT_TYPE_PATTERNS[k].content_type = "other"
         THEN ClassifyFrom(k + 1, url_lower, title_lower)
         ELSE IF PatternOccurs(CONTENT_TYPE_PATTERNS[k].patterns, url_lower, title_lower)
              THEN CONTENT_TYPE_PATTERNS[k].content_type
              ELSE ClassifyFrom(k + 1, url_lower, title_lower)

determine_content_type_url_only(url, title) == ClassifyFrom(1, Lower(url), <<>>)

\* _determine_content_type(url, content), title = content.get('title', '')
determine_content_type(url, title) == ClassifyFrom(1, Lower(url), Lower(title))

ClassifyHosts == { <<"x", ".", "c", "o", "m">>, <<"b", "l", "o", "g", ".", "x", ".", "c", "o", "m">>, <<"l", "i", "n", "k", "e", "d", "i", "n", ".", "c", "o", "m">>, <<"r", "e", "d", "d", "i", "t", ".", "c", "o", "m">> }

ClassifyPaths ==
    { <<"/">>,
      <<"/", "p", "o", "d", "c", "a", "s", "t", "/", "e", "p", "1", "-", "t", "r", "a", "n", "s", "c", "r", "i", "p", "t">>,
      <<"/", "a", "r", "t", "i", "c", "l", "e", "/", "1">>,
      <<"/", "b", "o", "o", "k">>,
      <<"/", "c", "a", "l", "l", "-", "n", "o", "t", "e", "s">>,
      <<"/", "t", "r", "a", "n", "s", "c", "r", "i", "p", "t">>,
      <<"/", "P", "o", "d", "c", "a", "s", "t">>,
      <<"/", "a", "b", "o", "u", "t">> }

ClassifyUrls == { Scheme \o h \o p : h \in ClassifyHosts, p \in ClassifyPaths }

ClassifyTitles ==
    { <<>>,
      <<"A", " ", "P", "o", "d", "c", "a", "s", "t">>,
      <<"B", "o", "o", "k">>,
      <<"a", " ", "c", "a", "l", "l">>,
      <<"h", "i">> }

ClassifyIdle ==
    /\ ct_pc = "idle"
    /\ ct_url = <<>>
    /\ ct_title = <<>>
    /\ ct_result = "none"

\* a page has been fetched and parsed: its URL and the title of its content
ClassifyInit ==
    /\ ct_pc = "parsed"
    /\ ct_url \in ClassifyUrls
    /\ ct_title \in ClassifyTitles
    /\ ct_result = "none"

\* content['content_type'] = self._determine_content_type(url, content)
DetermineContentType ==
    /\ ct_pc = "parsed"
    /\ ct_result' = determine_content_type(ct_url, ct_title)
    /\ ct_pc' = "classified"
    /\ UNCHANGED <<ct_url, ct_title>>
    /\ UNCHANGED otherThanClassify

ClassifyNext == DetermineContentType

-----------------------------------------------------------------------------
(* The chunker: PDFScraper._chunk_text of pdf_scraper.py.  Text, sentences *)
(* and chunks are sequences of characters.                                 *)

\* "if len(chunk) >= 100:  # Minimum chunk size"
MinChunkSize == 100

\* a sentence of n characters: n - 1 times c, no space, and a full stop
Sentence(c, n) == Rep(c, n - 1) \o <<".">>

\* the same with a space in the middle
TwoWords(c, n) == Rep(c, n \div 2) \o <<" ">> \o Rep(c, n - (n \div 2) - 2) \o <<".">>

\* the sentences the texts are made of: shorter than the minimum chunk size,
\* longer, of a whole chunk size, longer than a chunk and its overlap
ChunkSentences ==
    { Sentence("a", 30), TwoWords("b", 60), Sentence("c", 120), Sentence("e", 200),
      Sentence("d", 270) }

\* (chunk_size, chunk_overlap) of the PDFScraper
ChunkConfigs == { <<200, 0>>, <<200, 60>> }

RECURSIVE JoinFrom(_, _)
JoinFrom(seq, k) ==
    IF k > Len(seq) THEN <<>>
    ELSE IF k = Len(seq) THEN seq[k]
         ELSE seq[k] \o <<" ">> \o JoinFrom(seq, k + 1)

\* ' '.join(seq)
Join(seq) == JoinFrom(seq, 1)

\* the cleaned texts: up to MaxSentences sentences, a space between them
ChunkTexts ==
    { Join(seq) : seq \in UNION { [1..n -> ChunkSentences] : n \in 0..MaxSentences } }

\* the places where re.split(r'(?<=[.!?])\s+', text) cuts: white space that
\* follows a full stop, an exclamation mark or a question mark
SplitPoints(text) ==
    { i \in 2..Len(text) : IsSpace(text[i]) /\ text[i - 1] \in {".", "!", "?"} }

\* the pieces of text from position start on
RECURSIVE SplitFrom(_, _)
SplitFrom(text, start) ==
    LET cuts == { i \in SplitPoints(text) : i >= start }
    IN IF cuts = {} THEN <<SubSeq(text, start, Len(text))>>
       ELSE LET cut == CHOOSE i \in cuts : \A j \in cuts : i <= j
            IN <<SubSeq(text, start, cut - 1)>>
                 \o SplitFrom(text, RunEnd(text, cut, "space") + 1)

split_sentences(text) == SplitFrom(text, 1)

\* sentences.index(sentence): the first position that holds an equal sentence
IndexOf(sentences, sentence) ==
    CHOOSE k \in 1..Len(sentences) :
        /\ sentences[k] = sentence
        /\ \A j \in 1..(k - 1) : sentences[j] # sentence

\* "for prev_sentence in reversed(sentences[:...])", from position j downwards
RECURSIVE OverlapFrom(_, _, _, _)
OverlapFrom(sentences, j, overlap_text, overlap) ==
    IF j < 1 THEN overlap_text
    ELSE IF Len(overlap_text) + Len(sentences[j]) <= overlap
         THEN OverlapFrom(sentences, j - 1, sentences[j] \o <<" ">> \o overlap_text,
                          overlap)
         ELSE overlap_text

\* the text that starts the chunk opened at sentences[k]
overlap_text_of(sentences, k, overlap) ==
    IF overlap > 0
    THEN OverlapFrom(sentences, IndexOf(sentences, sentences[k]) - 1, <<>>, overlap)
    ELSE <<>>

\* "Ensure chunks are not too small", from chunk k on
RECURSIVE MergeSmallFrom(_, _, _)
MergeSmallFrom(chunks, k, final) ==
    IF k > Len(chunks) THEN final
    ELSE IF Len(chunks[k]) >= MinChunkSize
         THEN MergeSmallFrom(chunks, k + 1, Append(final, chunks[k]))
         ELSE IF final # <<>>
              THEN MergeSmallFrom(chunks, k + 1,
                       [final EXCEPT ![Len(final)] = @ \o <<" ">> \o chunks[k]])
              ELSE MergeSmallFrom(chunks, k + 1, final)

ChunkIdle ==
    /\ ch_pc = "idle"
    /\ chunk_size = 0
    /\ chunk_overlap = 0
    /\ ch_text = <<>>
    /\ ch_sentences = <<>>
    /\ ch_k = 0
    /\ ch_chunks = <<>>
    /\ current_chunk = <<>>
    /\ ch_seeds = <<>>
    /\ final_chunks = <<>>

\* a PDFScraper and the cleaned text of a document
ChunkInit ==
    /\ ch_pc = "cleaned"
    /\ \E cfg \in ChunkConfigs : chunk_size = cfg[1] /\ chunk_overlap = cfg[2]
    /\ ch_text \in ChunkTexts
    /\ ch_sentences = <<>>
    /\ ch_k = 0
    /\ ch_chunks = <<>>
    /\ current_chunk = <<>>
    /\ ch_seeds = <<>>
    /\ final_chunks = <<>>

\* _chunk_text(text) up to the loop: [] for an empty text, else the sentences
ChunkText ==
    /\ ch_pc = "cleaned"
    /\ IF ch_text = <<>>
       THEN /\ ch_pc' = "done"
            /\ UNCHANGED ch_sentences
       ELSE /\ ch_pc' = "loop"
            /\ ch_sentences' = split_sentences(ch_text)
    /\ UNCHANGED <<chunk_size, chunk_overlap, ch_text, ch_k, ch_chunks, current_chunk,
                   ch_seeds, final_chunks>>
    /\ UNCHANGED otherThanChunk

\* one pass of "for sentence in sentences"
ChunkSentence ==
    /\ ch_pc = "loop"
    /\ ch_k < Len(ch_sentences)
    /\ ch_k' = ch_k + 1
    /\ LET sentence == ch_sentences[ch_k + 1]
           overlap_text == overlap_text_of(ch_sentences, ch_k + 1, chunk_overlap)
       IN IF Len(current_chunk) + Len(sentence) > chunk_size /\ current_chunk # <<>>
          THEN /\ ch_chunks' = Append(ch_chunks, Strip(current_chunk))
               /\ ch_seeds' = Append(ch_seeds, [chunk |-> Strip(current_chunk),
                                                overlap_text |-> overlap_text])
               /\ current_chunk' = overlap_text \o sentence
          ELSE /\ current_chunk' = IF current_chunk # <<>>
                                   THEN current_chunk \o <<" ">> \o sentence
                                   ELSE sentence
               /\ UNCHANGED <<ch_chunks, ch_seeds>>
    /\ UNCHANGED <<ch_pc, chunk_size, chunk_overlap, ch_text, ch_sentences, final_chunks>>
    /\ UNCHANGED otherThanChunk

\* after the loop: the last chunk, the merge of the small chunks, the return
ChunkFinish ==
    /\ ch_pc = "loop"
    /\ ch_k = Len(ch_sentences)
    /\ ch_chunks' = IF Strip(current_chunk) # <<>>
                    THEN Append(ch_chunks, Strip(current_chunk))
                    ELSE ch_chunks
    /\ final_chunks' = MergeSmallFrom(ch_chunks', 1, <<>>)
    /\ ch_pc' = "done"
    /\ UNCHANGED <<chunk_size, chunk_overlap, ch_text, ch_sentences, ch_k, current_chunk,
                   ch_seeds>>
    /\ UNCHANGED otherThanChunk

ChunkNext ==
    \/ ChunkText
    \/ ChunkSentence
    \/ ChunkFinish

-----------------------------------------------------------------------------
(* The Drive pipeline: GoogleDriveHandler.extract_pdf_urls of              *)
(* google_drive_handler.py and its two callers,                            *)
(* IntelligentScraper._scrape_google_drive of main.py and the Drive branch *)
(* of UnifiedScraper.scrape_url of unified_scraper.py.                     *)

\* [a-zA-Z0-9_-]
IdChars ==
    { "a", "b", "c", "d", "e", "f", "g", "h", "i", "j", "k", "l", "m", "n", "o", "p",
      "q", "r", "s", "t", "u", "v", "w", "x", "y", "z", "A", "B", "C", "D", "E", "F",
      "G", "H", "I", "J", "K", "L", "M", "N", "O", "P", "Q", "R", "S", "T", "U", "V",
      "W", "X", "Y", "Z", "0", "1", "2", "3", "4", "5", "6", "7", "8", "9", "_", "-" }

\* the prefixes of the patterns of _extract_file_id, in their order
FileIdPrefixes ==
    << <<"/", "f", "i", "l", "e", "/", "d", "/">>,
       <<"/", "o", "p", "e", "n", "?", "i", "d", "=">>,
       <<"/", "u", "c", "?", "i", "d", "=">>,
       <<"/", "u", "c", "?", "e", "x", "p", "o", "r", "t", "=", "d", "o", "w", "n", "l", "o", "a", "d", "&", "i", "d", "=">> >>

\* re.search(prefix + '([a-zA-Z0-9_-]+)', url): the start of the leftmost
\* match, 0 when there is none
SearchId(url, prefix) ==
    LET at == { k \in 1..Len(url) :
                  /\ OccursAt(url, prefix, k)
                  /\ k + Len(prefix) <= Len(url)
                  /\ url[k + Len(prefix)] \in IdChars }
    IN IF at = {} THEN 0 ELSE CHOOSE k \in at : \A j \in at : k <= j

\* match.group(1): the longest run of id characters behind the prefix
IdAt(url, from) ==
    LET stops == { k \in from..Len(url) : url[k] \notin IdChars }
    IN SubSeq(url, from,
              IF stops = {} THEN Len(url)
              ELSE (CHOOSE k \in stops : \A j \in stops : k <= j) - 1)

\* _extract_file_id: <<>> stands for None (a match is never empty)
RECURSIVE ExtractFileIdFrom(_, _)
ExtractFileIdFrom(url, p) ==
    IF p > Len(FileIdPrefixes) THEN <<>>
    ELSE IF SearchId(url, FileIdPrefixes[p]) > 0
         THEN IdAt(url, SearchId(url, FileIdPrefixes[p]) + Len(FileIdPrefixes[p]))
         ELSE ExtractFileIdFrom(url, p + 1)

extract_file_id(url) == ExtractFileIdFrom(url, 1)

make_download_url(file_id) ==
    <<"h", "t", "t", "p", "s", ":", "/", "/", "d", "r", "i", "v", "e", ".", "g", "o", "o", "g", "l", "e", ".", "c", "o", "m", "/", "u", "c", "?", "e", "x", "p", "o", "r", "t", "=", "d", "o", "w", "n", "l", "o", "a", "d", "&", "i", "d", "=">> \o file_id

\* _extract_from_folder, after the page was fetched: files without id, with an
\* id that starts with '_' or seen before are left out, from file k on
RECURSIVE UniqueFilesFrom(_, _, _)
UniqueFilesFrom(files, k, seen_ids) ==
    IF k > Len(files) THEN <<>>
    ELSE IF /\ files[k][1] # <<>>
            /\ files[k][1][1] # "_"
            /\ files[k][1] \notin seen_ids
         THEN <<files[k]>> \o UniqueFilesFrom(files, k + 1, seen_ids \cup {files[k][1]})
         ELSE UniqueFilesFrom(files, k + 1, seen_ids)

\* the download URLs of the files whose name ends with '.pdf'
RECURSIVE PdfUrlsFrom(_, _)
PdfUrlsFrom(unique_files, k) ==
    IF k > Len(unique_files) THEN <<>>
    ELSE IF EndsWith(Lower(unique_files[k][2]), Str_dotpdf)
         THEN <<make_download_url(unique_files[k][1])>> \o PdfUrlsFrom(unique_files, k + 1)
         ELSE PdfUrlsFrom(unique_files, k + 1)

extract_from_folder(files) == PdfUrlsFrom(UniqueFilesFrom(files, 1, {}), 1)

\* extract_pdf_urls(url); files is what the folder page holds when it has to be
\* fetched (the empty list when the fetch fails)
extract_pdf_urls(url, files) ==
    IF ~is_google_drive_url(url) THEN <<url>>
    ELSE IF Contains(url, Str_folders) THEN extract_from_folder(files)
    ELSE IF extract_file_id(url) # <<>> THEN <<make_download_url(extract_file_id(url))>>
    ELSE <<>>

\* the Drive URLs given to the dispatchers
DriveUrls ==
    { <<"h", "t", "t", "p", "s", ":", "/", "/", "d", "r", "i", "v", "e", ".", "g", "o", "o", "g", "l", "e", ".", "c", "o", "m", "/", "f", "i", "l", "e", "/", "d", "/", "a", "1", "/", "v", "i", "e", "w">>,
      <<"h", "t", "t", "p", "s", ":", "/", "/", "d", "r", "i", "v", "e", ".", "g", "o", "o", "g", "l", "e", ".", "c", "o", "m", "/", "f", "i", "l", "e", "/", "d", "/", "b", "_", "2", "/", "v", "i", "e", "w">>,
      <<"h", "t", "t", "p", "s", ":", "/", "/", "d", "r", "i", "v", "e", ".", "g", "o", "o", "g", "l", "e", ".", "c", "o", "m", "/", "o", "p", "e", "n", "?", "i", "d", "=", "a", "1">>,
      <<"h", "t", "t", "p", "s", ":", "/", "/", "d", "r", "i", "v", "e", ".", "g", "o", "o", "g", "l", "e", ".", "c", "o", "m", "/", "u", "c", "?", "i", "d", "=", "a", "1">>,
      <<"h", "t", "t", "p", "s", ":", "/", "/", "d", "r", "i", "v", "e", ".", "g", "o", "o", "g", "l", "e", ".", "c", "o", "m", "/", "u", "c", "?", "e", "x", "p", "o", "r", "t", "=", "d", "o", "w", "n", "l", "o", "a", "d", "&", "i", "d", "=", "a", "1">>,
      <<"h", "t", "t", "p", "s", ":", "/", "/", "d", "r", "i", "v", "e", ".", "g", "o", "o", "g", "l", "e", ".", "c", "o", "m", "/", "u", "c", "?", "e", "x", "p", "o", "r", "t", "=", "d", "o", "w", "n", "l", "o", "a", "d", "&", "i", "d", "=", "b", "_", "2">>,
      <<"h", "t", "t", "p", "s", ":", "/", "/", "d", "r", "i", "v", "e", ".", "g", "o", "o", "g", "l", "e", ".", "c", "o", "m", "/", "d", "r", "i", "v", "e", "/", "f", "o", "l", "d", "e", "r", "s", "/", "F", "1">>,
      <<"h", "t", "t", "p", "s", ":", "/", "/", "d", "r", "i", "v", "e", ".", "g", "o", "o", "g", "l", "e", ".", "c", "o", "m", "/", "d", "r", "i", "v", "e", "/", "m", "y", "-", "d", "r", "i", "v", "e">>,
      <<"h", "t", "t", "p", "s", ":", "/", "/", "d", "r", "i", "v", "e", ".", "g", "o", "o", "g", "l", "e", ".", "c", "o", "m", "/", "f", "i", "l", "e", "/">> }

\* the (file id, file name) pairs a folder page can hold
FolderListings ==
    { <<>>,
      <<<<<<"f", "1">>, <<"a", ".", "p", "d", "f">>>>>>,
      <<<<<<"f", "1">>, <<"a", ".", "p", "d", "f">>>>, <<<<"f", "2">>, <<"b", ".", "P", "D", "F">>>>>>,
      <<<<<<"f", "1">>, <<"a", ".", "p", "d", "f">>>>, <<<<"f", "1">>, <<"a", ".", "p", "d", "f">>>>, <<<<"f", "3">>, <<"c", ".", "t", "x", "t">>>>>>,
      <<<<<<"_", "x">>, <<"d", ".", "p", "d", "f">>>>, <<<<"f", "2">>, <<"b", ".", "P", "D", "F">>>>>> }

\* what scrape_pdf(url, user_id) can return: one item per chunk of the text,
\* no item when the download or the extraction fails
PdfItems(url, n) == [i \in 1..n |-> [source_url |-> url, chunk_index |-> i - 1]]

DriveIdle ==
    /\ gd_pc = "idle"
    /\ gd_who = "none"
    /\ gd_url = <<>>
    /\ gd_pdf_urls = <<>>
    /\ gd_k = 0
    /\ gd_runs = <<>>
    /\ all_items = <<>>

\* a dispatcher has found a Drive URL: pdf_urls = extract_pdf_urls(url)
ScrapeGoogleDrive(who, url) ==
    /\ gd_pc = "idle"
    /\ is_google_drive_url(url)
    /\ gd_who' = who
    /\ gd_url' = url
    /\ \E files \in FolderListings :
         /\ ~Contains(url, Str_folders) => files = <<>>
         /\ gd_pdf_urls' = extract_pdf_urls(url, files)
    /\ gd_k' = 0
    /\ gd_runs' = <<>>
    /\ all_items' = <<>>
    /\ gd_pc' = "loop"
    /\ UNCHANGED otherThanDrive

\* one pass of "for pdf_url in pdf_urls": IntelligentScraper skips a pdf_url
\* equal to url, UnifiedScraper scrapes it all the same
DrivePdf ==
    /\ gd_pc = "loop"
    /\ gd_k < Len(gd_pdf_urls)
    /\ gd_k' = gd_k + 1
    /\ LET pdf_url == gd_pdf_urls[gd_k + 1]
       IN IF gd_who = "intelligent" /\ pdf_url = gd_url
          THEN UNCHANGED <<gd_runs, all_items>>
          ELSE \E n \in 0..MaxChunks :
                  /\ gd_runs' = Append(gd_runs, [pdf_url |-> pdf_url,
                                                 items |-> PdfItems(pdf_url, n)])
                  /\ all_items' = all_items \o PdfItems(pdf_url, n)
    /\ UNCHANGED <<gd_pc, gd_who, gd_url, gd_pdf_urls>>
    /\ UNCHANGED otherThanDrive

\* "return all_items"
DriveReturn ==
    /\ gd_pc = "loop"
    /\ gd_k = Len(gd_pdf_urls)
    /\ gd_pc' = "done"
    /\ UNCHANGED <<gd_who, gd_url, gd_pdf_urls, gd_k, gd_runs, all_items>>
    /\ UNCHANGED otherThanDrive

DriveNext ==
    \/ \E who \in {"unified", "intelligent"}, url \in DriveUrls : ScrapeGoogleDrive(who, url)
    \/ DrivePdf
    \/ DriveReturn

-----------------------------------------------------------------------------
(* The PDF pipeline: PDFScraper.scrape_pdf of pdf_scraper.py with           *)
(* _download_pdf and _extract_text_from_pdf. A text is known by its length *)
(* and the length of text.strip().                                         *)

Str_octet == <<"o", "c", "t", "e", "t", "-", "s", "t", "r", "e", "a", "m">>

\* the URLs given to scrape_pdf
PdfUrls ==
    { <<"h", "t", "t", "p", "s", ":", "/", "/", "x", ".", "i", "o", "/", "a", ".", "p", "d", "f">>,
      <<"h", "t", "t", "p", "s", ":", "/", "/", "x", ".", "i", "o", "/", "b", ".", "P", "D", "F">>,
      <<"h", "t", "t", "p", "s", ":", "/", "/", "x", ".", "i", "o", "/", "c">>,
      <<"h", "t", "t", "p", "s", ":", "/", "/", "d", "r", "i", "v", "e", ".", "g", "o", "o", "g", "l", "e", ".", "c", "o", "m", "/", "u", "c", "?", "e", "x", "p", "o", "r", "t", "=", "d", "o", "w", "n", "l", "o", "a", "d", "&", "i", "d", "=", "a", "1">> }

\* response.headers.get('content-type', ''): the last one is a missing header
ContentTypes ==
    { <<"a", "p", "p", "l", "i", "c", "a", "t", "i", "o", "n", "/", "p", "d", "f">>,
      <<"A", "p", "p", "l", "i", "c", "a", "t", "i", "o", "n", "/", "P", "D", "F">>,
      <<"b", "i", "n", "a", "r", "y", "/", "o", "c", "t", "e", "t", "-", "s", "t", "r", "e", "a", "m">>,
      <<"t", "e", "x", "t", "/", "h", "t", "m", "l">>,
      <<>> }

\* "if response.status == 200" with the test of the content type and the URL
AcceptsAnyType(content_type, url) == TRUE

Accepts(content_type, url) ==
    \/ Contains(Lower(content_type), Str_pdf)
    \/ Contains(Lower(content_type), Str_octet)
    \/ EndsWith(Lower(url), Str_dotpdf)

\* one GET of _download_pdf: the request raises, answers another status than
\* 200, or answers 200 with a content type; then response.read() gives bytes
\* (possibly none) or raises
PdfGets ==
    {[outcome |-> "raise", content_type |-> <<>>, read |-> "none"],
     [outcome |-> "status_other", content_type |-> <<>>, read |-> "none"]}
    \cup [outcome : {"status_200"}, content_type : ContentTypes,
          read : {"bytes", "empty", "raise"}]

\* the attempt ends in the except clause
GetRaises(get, url) ==
    \/ get.outcome = "raise"
    \/ /\ get.outcome = "status_200"
       /\ Accepts(get.content_type, url)
       /\ get.read = "raise"

\* the attempt ends in a return
GetReturns(get, url) == get.outcome = "status_200" /\ ~GetRaises(get, url)

\* what the return gives: the body, or None for a refused content type
Returned(get, url) == IF Accepts(get.content_type, url) THEN get.read ELSE "None"

\* len(text.strip()) > 100
MinTextLength == 100

NoText == [none |-> TRUE, len |-> 0, stripped |-> 0]

Text(len, stripped) == [none |-> FALSE, len |-> len, stripped |-> stripped]

\* what a library reads from the bytes: nothing, white space only, a short text,
\* a long text; raises tells that the library failed
Extractions ==
    [raises : BOOLEAN,
     text : {Text(0, 0), Text(3, 0), Text(MinTextLength, MinTextLength),
             Text(MinTextLength + 3, MinTextLength + 1)}]

\* "if text and len(text.strip()) > 100"
LongEnough(text) == text.len > 0 /\ text.stripped > MinTextLength

\* _extract_text_from_pdf
extract_text_from_pdf(plumber, pypdf2) ==
    LET text1 == IF plumber.raises THEN Text(0, 0) ELSE plumber.text
        text2 == IF pypdf2.raises THEN text1 ELSE pypdf2.text
    IN IF ~plumber.raises /\ LongEnough(text1) THEN text1
       ELSE IF ~pypdf2.raises /\ LongEnough(text2) THEN text2
       ELSE IF text2.stripped > 0 THEN text2 ELSE NoText

\* "except Exception: return []" around the body of scrape_pdf
scrape_pdf_propagates(raised, built) ==
    IF raised THEN [kind |-> "raise", items |-> <<>>]
    ELSE [kind |-> "return", items |-> built]

scrape_pdf_result(raised, built) ==
    [kind |-> "return", items |-> IF raised THEN <<>> ELSE built]

PdfIdle ==
    /\ pdf_pc = "idle"
    /\ pdf_link = <<>>
    /\ pdf_max_retries = 0
    /\ pdf_attempt = 0
    /\ pdf_gets = <<>>
    /\ pdf_sleeps = <<>>
    /\ pdf_content = "unset"
    /\ text_content = NoText
    /\ pdf_result = [kind |-> "unset", items |-> <<>>]

\* PDFScraper(max_retries = n)
PdfInit ==
    /\ pdf_pc = "idle"
    /\ pdf_link = <<>>
    /\ pdf_max_retries \in 0..MaxRetriesBound
    /\ pdf_attempt = 0
    /\ pdf_gets = <<>>
    /\ pdf_sleeps = <<>>
    /\ pdf_content = "unset"
    /\ text_content = NoText
    /\ pdf_result = [kind |-> "unset", items |-> <<>>]

\* scrape_pdf(url, user_id) enters _download_pdf
ScrapePdf(url) ==
    /\ pdf_pc = "idle"
    /\ pdf_link' = url
    /\ pdf_attempt' = 0
    /\ pdf_gets' = <<>>
    /\ pdf_sleeps' = <<>>
    /\ pdf_content' = "unset"
    /\ text_content' = NoText
    /\ pdf_result' = [kind |-> "unset", items |-> <<>>]
    /\ pdf_pc' = "download"
    /\ UNCHANGED pdf_max_retries
    /\ UNCHANGED otherThanPdf

\* one pass of "for attempt in range(self.max_retries)"
DownloadAttempt ==
    /\ pdf_pc = "download"
    /\ pdf_attempt < pdf_max_retries
    /\ \E get \in PdfGets :
         /\ pdf_gets' = Append(pdf_gets, get)
         /\ IF GetReturns(get, pdf_link)
            THEN /\ pdf_content' = Returned(get, pdf_link)
                 /\ pdf_pc' = "downloaded"
                 /\ UNCHANGED <<pdf_attempt, pdf_sleeps>>
            ELSE /\ pdf_attempt' = pdf_attempt + 1
                 /\ pdf_sleeps' =
                       IF GetRaises(get, pdf_link) /\ pdf_attempt < pdf_max_retries - 1
                       THEN Append(pdf_sleeps, 2 * (pdf_attempt + 1))
                       ELSE pdf_sleeps
                 /\ UNCHANGED <<pdf_content, pdf_pc>>
    /\ UNCHANGED <<pdf_link, pdf_max_retries, text_content, pdf_result>>
    /\ UNCHANGED otherThanPdf

\* the loop is over: "return None"
DownloadGiveUp ==
    /\ pdf_pc = "download"
    /\ pdf_attempt >= pdf_max_retries
    /\ pdf_content' = "None"
    /\ pdf_pc' = "downloaded"
    /\ UNCHANGED <<pdf_link, pdf_max_retries, pdf_attempt, pdf_gets, pdf_sleeps,
                   text_content, pdf_result>>
    /\ UNCHANGED otherThanPdf

\* "if not pdf_content: return []", else _extract_text_from_pdf and
\* "if not text_content: return []"
ExtractText ==
    /\ pdf_pc = "downloaded"
    /\ IF pdf_content # "bytes"
       THEN /\ pdf_result' = scrape_pdf_result(FALSE, <<>>)
            /\ pdf_pc' = "done"
            /\ UNCHANGED text_content
       ELSE \E plumber \in Extractions, pypdf2 \in Extractions :
              /\ text_content' = extract_text_from_pdf(plumber, pypdf2)
              /\ IF text_content'.none \/ text_content'.len = 0
                 THEN /\ pdf_result' = scrape_pdf_result(FALSE, <<>>)
                      /\ pdf_pc' = "done"
                 ELSE /\ pdf_pc' = "chunk"
                      /\ UNCHANGED pdf_result
    /\ UNCHANGED <<pdf_link, pdf_max_retries, pdf_attempt, pdf_gets, pdf_sleeps, pdf_content>>
    /\ UNCHANGED otherThanPdf

\* the rest of the try block: clean, metadata, chunks, one item per chunk; a
\* step of it may raise
BuildItems ==
    /\ pdf_pc = "chunk"
    /\ \E raised \in BOOLEAN, n \in 0..MaxChunks :
         pdf_result' = scrape_pdf_result(raised, PdfItems(pdf_link, n))
    /\ pdf_pc' = "done"
    /\ UNCHANGED <<pdf_link, pdf_max_retries, pdf_attempt, pdf_gets, pdf_sleeps,
                   pdf_content, text_content>>
    /\ UNCHANGED otherThanPdf

\* the caller has the list and goes on with the next URL
PdfNextUrl ==
    /\ pdf_pc = "done"
    /\ pdf_result.kind = "return"
    /\ pdf_pc' = "idle"
    /\ UNCHANGED <<pdf_link, pdf_max_retries, pdf_attempt, pdf_gets, pdf_sleeps,
                   pdf_content, text_content, pdf_result>>
    /\ UNCHANGED otherThanPdf

PdfNext ==
    \/ \E url \in PdfUrls : ScrapePdf(url)
    \/ DownloadAttempt
    \/ DownloadGiveUp
    \/ ExtractText
    \/ BuildItems
    \/ PdfNextUrl

-----------------------------------------------------------------------------
(* The command-line run of main.py: main() expands every argument with a   *)
(* URLProcessor, then scrapes the pages with an IntelligentScraper used as *)
(* a context manager.                                                      *)

\* the arguments: "l" stands for a listing page, "p" and "q" for single pages
MainUrls == {"l", "p", "q"}

MainListing == {"l"}

MaxUrls == 2

ArgvLists == UNION {[1..n -> MainUrls] : n \in 0..MaxUrls}

\* the objects that hold an aiohttp session
Owners == {"url_processor", "web_scraper", "pdf_scraper", "google_drive_handler"}

ContextManaged == {"web_scraper", "pdf_scraper", "google_drive_handler"}

\* what process_url can return: the pages found on a listing page, or the
\* URL itself
ProcessUrlResults(url) ==
    IF url \in MainListing THEN {<<>>, <<"q">>, <<"p", "q">>} ELSE {<<url>>}

\* scrape_url raises (caught by the loop), fails inside (returns []), or
\* returns the records of the URL
ScrapeOutcomes == {"raise", "failed", "records"}

ItemsOf(url) ==
    IF url = "p" THEN <<[source_url |-> url, part |-> 1], [source_url |-> url, part |-> 2]>>
    ELSE <<[source_url |-> url, part |-> 1]>>

\* items = await self.scrape_url(url, user_id)
scrape_url_items(url, out) == IF out = "records" THEN ItemsOf(url) ELSE <<>>

extend_overwrites(found, out, new_items) == new_items

\* try: ...; all_items.extend(items); except Exception: print(...)
extend(found, out, new_items) ==
    IF out = "raise" THEN found ELSE found \o new_items

\* self.session = aiohttp.ClientSession()
OpenSession(owner) ==
    /\ mn_made' = mn_made + 1
    /\ mn_session' = [mn_session EXCEPT ![owner] = mn_made + 1]
    /\ mn_open' = mn_open \cup {mn_made + 1}

\* if not self.session: self.session = aiohttp.ClientSession()
LazySession(owner) ==
    IF mn_session[owner] = 0 THEN OpenSession(owner)
    ELSE UNCHANGED <<mn_made, mn_session, mn_open>>

MainIdle ==
    /\ mn_pc = "idle"
    /\ mn_argv = <<>>
    /\ mn_k = 0
    /\ all_page_urls = <<>>
    /\ mn_session = [o \in Owners |-> 0]
    /\ mn_made = 0
    /\ mn_open = {}
    /\ mn_runs = <<>>
    /\ scraped_items = <<>>

\* main(): url_processor = URLProcessor(max_pages=1); scraper = IntelligentScraper()
Main(argv) ==
    /\ mn_pc = "idle"
    /\ mn_pc' = "expand"
    /\ mn_argv' = argv
    /\ mn_k' = 1
    /\ UNCHANGED <<all_page_urls, mn_session, mn_made, mn_open, mn_runs, scraped_items>>
    /\ UNCHANGED otherThanMain

\* one pass of "for url in urls: page_urls = await url_processor.process_url(url)";
\* a listing page goes through _extract_urls_html, which opens the session
\* of the URLProcessor when it has none
MainProcessUrl ==
    /\ mn_pc = "expand"
    /\ mn_k <= Len(mn_argv)
    /\ \E page_urls \in ProcessUrlResults(mn_argv[mn_k]) :
         all_page_urls' = all_page_urls \o page_urls
    /\ IF mn_argv[mn_k] \in MainListing THEN LazySession("url_processor")
       ELSE UNCHANGED <<mn_made, mn_session, mn_open>>
    /\ mn_k' = mn_k + 1
    /\ UNCHANGED <<mn_pc, mn_argv, mn_runs, scraped_items>>
    /\ UNCHANGED otherThanMain

\* "async with scraper:": IntelligentScraper.__aenter__ enters the web
\* scraper, the PDF scraper and the Drive handler, each opening a session
MainEnter ==
    /\ mn_pc = "expand"
    /\ mn_k > Len(mn_argv)
    /\ mn_pc' = "scrape"
    /\ mn_k' = 1
    /\ mn_made' = mn_made + 3
    /\ mn_session' = [mn_session EXCEPT !["web_scraper"] = mn_made + 1,
                                        !["pdf_scraper"] = mn_made + 2,
                                        !["google_drive_handler"] = mn_made + 3]
    /\ mn_open' = mn_open \cup {mn_made + 1, mn_made + 2, mn_made + 3}
    /\ UNCHANGED <<mn_argv, all_page_urls, mn_runs, scraped_items>>
    /\ UNCHANGED otherThanMain

\* one pass of the loop of scrape_multiple_urls
MainScrapeUrl ==
    /\ mn_pc = "scrape"
    /\ mn_k <= Len(all_page_urls)
    /\ \E out \in ScrapeOutcomes :
         LET url == all_page_urls[mn_k] IN
         /\ mn_runs' = Append(mn_runs, [url |-> url, out |-> out,
                                        items |-> scrape_url_items(url, out)])
         /\ scraped_items' = extend(scraped_items, out, scrape_url_items(url, out))
    /\ mn_k' = mn_k + 1
    /\ UNCHANGED <<mn_pc, mn_argv, all_page_urls, mn_session, mn_made, mn_open>>
    /\ UNCHANGED otherThanMain

\* the end of "async with scraper:": IntelligentScraper.__aexit__ closes the
\* sessions of the three objects it entered
MainExit ==
    /\ mn_pc = "scrape"
    /\ mn_k > Len(all_page_urls)
    /\ mn_pc' = "save"
    /\ mn_open' = mn_open \ {mn_session[o] : o \in ContextManaged}
    /\ UNCHANGED <<mn_argv, mn_k, all_page_urls, mn_session, mn_made, mn_runs, scraped_items>>
    /\ UNCHANGED otherThanMain

\* format_output and json.dump to the output file: main() returns or ends
\* with the exception of the write
MainSave ==
    /\ mn_pc = "save"
    /\ \E end \in {"done", "crashed"} : mn_pc' = end
    /\ UNCHANGED <<mn_argv, mn_k, all_page_urls, mn_session, mn_made, mn_open, mn_runs, scraped_items>>
    /\ UNCHANGED otherThanMain

MainNext ==
    \/ \E argv \in ArgvLists : Main(argv)
    \/ MainProcessUrl
    \/ MainEnter
    \/ MainScrapeUrl
    \/ MainExit
    \/ MainSave

-----------------------------------------------------------------------------
(* The card-clicking scrape of a listing page:                             *)
(* WebScraper._scrape_listing_page of scraper.py.                          *)

\* the listing page and the pages its cards lead to
ListingPage == "listing"

\* "'/blog/' in new_url"
IsBlogPost(u) == u \in {"/blog/a", "/blog/b"}

\* the cards the page can show: text_key is what find_blog_cards tells cards
\* apart by, target the page a click on the card leads to
Cards ==
    { [text_key |-> "k1", target |-> "/blog/a"],
      [text_key |-> "k2", target |-> "/blog/a"],
      [text_key |-> "k3", target |-> "/blog/b"],
      [text_key |-> "k4", target |-> "/about"] }

MaxCards == 3

\* what find_blog_cards can return: cards with pairwise distinct text_key
CardLists ==
    { l \in UNION { [1..n -> Cards] : n \in 0..MaxCards } :
        \A j, k \in 1..Len(l) : j # k => l[j].text_key # l[k].text_key }

\* the click fails three times, succeeds without or with a navigation, or an
\* exception leaves the body of the try
ClickOutcomes == {"not_clicked", "stayed", "navigated", "raised"}

already_processed_never(new_url, processed) == FALSE

\* "if new_url in processed_urls"
already_processed(new_url, processed) == new_url \in processed

CardsIdle ==
    /\ ls_pc = "idle"
    /\ card_selectors = <<>>
    /\ ls_i = 0
    /\ ls_page = "none"
    /\ ls_items = <<>>
    /\ processed_urls = {}
    /\ processed_cards = {}

\* _scrape_listing_page up to the loop: the browser is started and the
\* listing page loaded, or the exception of either gives []
ScrapeListingPage ==
    /\ ls_pc = "idle"
    /\ \/ /\ ls_pc' = "done"
          /\ UNCHANGED <<card_selectors, ls_page>>
       \/ /\ ls_pc' = "cards"
          /\ card_selectors' \in CardLists
          /\ ls_page' = ListingPage
    /\ UNCHANGED <<ls_i, ls_items, processed_urls, processed_cards>>
    /\ UNCHANGED otherThanCards

\* one pass of "while i < len(card_selectors)"
ClickCard ==
    /\ ls_pc = "cards"
    /\ ls_i < Len(card_selectors)
    /\ ls_i' = ls_i + 1
    /\ LET card == card_selectors[ls_i + 1]
           seen == processed_cards \cup {card.text_key}
       IN IF card.text_key \in processed_cards
          THEN UNCHANGED <<card_selectors, ls_page, ls_items, processed_urls, processed_cards>>
          ELSE \E out \in ClickOutcomes, again \in CardLists, content \in BOOLEAN,
                  back \in BOOLEAN :
               /\ processed_cards' = seen
               /\ CASE out = "not_clicked" ->
                         UNCHANGED <<card_selectors, ls_page, ls_items, processed_urls>>
                    [] out = "stayed" ->
                         UNCHANGED <<card_selectors, ls_page, ls_items, processed_urls>>
                    [] out = "raised" ->
                         /\ card_selectors' = again
                         /\ ls_page' \in {ls_page, card.target}
                         /\ UNCHANGED <<ls_items, processed_urls>>
                    [] out = "navigated" ->
                         LET new_url == card.target
                         IN /\ new_url # ls_page
                            /\ IF ~IsBlogPost(new_url)
                               THEN /\ ls_page' = new_url
                                    /\ UNCHANGED <<card_selectors, ls_items, processed_urls>>
                               ELSE /\ ls_page' = IF back THEN ListingPage ELSE new_url
                                    /\ card_selectors' = again
                                    /\ IF ~already_processed(new_url, processed_urls) /\ content
                                       THEN /\ ls_items' = Append(ls_items, [source_url |-> new_url])
                                            /\ processed_urls' = processed_urls \cup {new_url}
                                       ELSE UNCHANGED <<ls_items, processed_urls>>
    /\ UNCHANGED ls_pc
    /\ UNCHANGED otherThanCards

\* the loop is over: "await browser.close()" and "return items", or [] when
\* closing the browser raises
ListingPageReturn ==
    /\ ls_pc = "cards"
    /\ ls_i >= Len(card_selectors)
    /\ ls_pc' = "done"
    /\ \E closed \in BOOLEAN : ls_items' = IF closed THEN ls_items ELSE <<>>
    /\ UNCHANGED <<card_selectors, ls_i, ls_page, processed_urls, processed_cards>>
    /\ UNCHANGED otherThanCards

CardsNext ==
    \/ ScrapeListingPage
    \/ ClickCard
    \/ ListingPageReturn

-----------------------------------------------------------------------------
(* The specifications.                                                     *)

\* a scraper object on which scrape() is never called
CrawlIdle ==
    /\ max_pages = 0
    /\ max_concurrent = 0
    /\ site = [u \in URLs |-> Unknown]
    /\ visited_urls = [i \in Scrapers |-> {}]
    /\ content_cache = [i \in Scrapers |-> <<>>]
    /\ cur = "none"
    /\ pc = "idle"
    /\ source = "s"
    /\ urls_to_scrape = <<>>
    /\ items = <<>>
    /\ new_urls = <<>>
    /\ pending = {}
    /\ soups = <<>>
    /\ fetched = <<>>
    /\ calls = MaxCalls
    /\ history = [i \in Scrapers |-> <<>>]
    /\ page_calls = [i \in Scrapers |-> {}]

Init == CrawlInit /\ RouteIdle /\ ExpandIdle /\ PageIdle /\ CleanIdle /\ FormatIdle /\ ClassifyIdle /\ ChunkIdle /\ DriveIdle /\ PdfIdle /\ MainIdle /\ CardsIdle

Next == CrawlNext

Spec == Init /\ [][Next]_vars

\* the crawl with its scheduling: a loop that can take a step takes it, and
\* every get_page_async task of a batch finishes
CrawlFairness ==
    /\ WF_vars(Return)
    /\ WF_vars(AsyncBatch)
    /\ WF_vars(\E k \in 1..Len(new_urls) : FetchDone(k))
    /\ WF_vars(AsyncProcess)
    /\ WF_vars(SyncIter)

SpecCrawlFair == Init /\ [][Next]_vars /\ CrawlFairness

RouteInit == CrawlIdle /\ RouteIdle /\ ExpandIdle /\ PageIdle /\ CleanIdle /\ FormatIdle /\ ClassifyIdle /\ ChunkIdle /\ DriveIdle /\ PdfIdle /\ MainIdle /\ CardsIdle

SpecRoute == RouteInit /\ [][RouteNext]_vars

\* URLProcessor(max_pages = n)
ExpandStart ==
    /\ pu_pc = "idle"
    /\ pu_url = <<>>
    /\ pu_max_pages \in 0..MaxPagesBound
    /\ pu_page = 0
    /\ pu_probes = <<>>
    /\ pu_html = {}
    /\ pu_urls = {}
    /\ pu_js = {}
    /\ pu_paginated = {}
    /\ pu_result = <<>>
    /\ pu_log = <<>>
    /\ pu_calls = {}

ExpandInit == CrawlIdle /\ RouteIdle /\ ExpandStart /\ PageIdle /\ CleanIdle /\ FormatIdle /\ ClassifyIdle /\ ChunkIdle /\ DriveIdle /\ PdfIdle /\ MainIdle /\ CardsIdle

SpecExpand == ExpandInit /\ [][ExpandNext]_vars

PageSpecInit == CrawlIdle /\ RouteIdle /\ ExpandIdle /\ PageInit /\ CleanIdle /\ FormatIdle /\ ClassifyIdle /\ ChunkIdle /\ DriveIdle /\ PdfIdle /\ MainIdle /\ CardsIdle

SpecPage == PageSpecInit /\ [][PageNext]_vars

CleanSpecInit == CrawlIdle /\ RouteIdle /\ ExpandIdle /\ PageIdle /\ CleanInit /\ FormatIdle /\ ClassifyIdle /\ ChunkIdle /\ DriveIdle /\ PdfIdle /\ MainIdle /\ CardsIdle

SpecClean == CleanSpecInit /\ [][CleanNext]_vars

FormatSpecInit == CrawlIdle /\ RouteIdle /\ ExpandIdle /\ PageIdle /\ CleanIdle /\ FormatInit /\ ClassifyIdle /\ ChunkIdle /\ DriveIdle /\ PdfIdle /\ MainIdle /\ CardsIdle

SpecFormat == FormatSpecInit /\ [][FormatNext]_vars

ClassifySpecInit ==
    CrawlIdle /\ RouteIdle /\ ExpandIdle /\ PageIdle /\ CleanIdle /\ FormatIdle /\ ClassifyInit /\ ChunkIdle /\ DriveIdle /\ PdfIdle /\ MainIdle /\ CardsIdle

SpecClassify == ClassifySpecInit /\ [][ClassifyNext]_vars

ChunkSpecInit ==
    CrawlIdle /\ RouteIdle /\ ExpandIdle /\ PageIdle /\ CleanIdle /\ FormatIdle /\ ClassifyIdle /\ ChunkInit /\ DriveIdle /\ PdfIdle /\ MainIdle /\ CardsIdle

SpecChunk == ChunkSpecInit /\ [][ChunkNext]_vars

DriveSpecInit ==
    CrawlIdle /\ RouteIdle /\ ExpandIdle /\ PageIdle /\ CleanIdle /\ FormatIdle /\ ClassifyIdle /\ ChunkIdle /\ DriveIdle /\ PdfIdle /\ MainIdle /\ CardsIdle

SpecDrive == DriveSpecInit /\ [][DriveNext]_vars

PdfSpecInit ==
    CrawlIdle /\ RouteIdle /\ ExpandIdle /\ PageIdle /\ CleanIdle /\ FormatIdle /\ ClassifyIdle /\ ChunkIdle /\ DriveIdle /\ PdfInit /\ MainIdle /\ CardsIdle

SpecPdf == PdfSpecInit /\ [][PdfNext]_vars

MainSpecInit ==
    CrawlIdle /\ RouteIdle /\ ExpandIdle /\ PageIdle /\ CleanIdle /\ FormatIdle /\ ClassifyIdle /\ ChunkIdle /\ DriveIdle /\ PdfIdle /\ MainIdle /\ CardsIdle

SpecMain == MainSpecInit /\ [][MainNext]_vars

CardsSpecInit ==
    CrawlIdle /\ RouteIdle /\ ExpandIdle /\ PageIdle /\ CleanIdle /\ FormatIdle /\ ClassifyIdle /\ ChunkIdle /\ DriveIdle /\ PdfIdle /\ MainIdle /\ CardsIdle

SpecCards == CardsSpecInit /\ [][CardsNext]_vars

-----------------------------------------------------------------------------
(* Claims about the crawl scheduler, checked under Spec.                   *)

NoRepeats(q) == \A k, l \in 1..Len(q) : k # l => q[k] # q[l]

FinishedCalls == UNION { SeqToSet(history[i]) : i \in Scrapers }

\* C1: after every step of the crawl loop of scrape_async and _scrape_sync the
\* number of visited URLs is at most max_pages.
C1_VisitedWithinBudget ==
    \A i \in Scrapers : Cardinality(visited_urls[i]) <= max_pages

\* a batch that the remaining budget, not max_concurrent, cut short
C1_Witness ==
    /\ cur = "async"
    /\ pc = "gather"
    /\ max_concurrent = 2
    /\ Len(new_urls) = 1
    /\ urls_to_scrape # <<>>
    /\ Cardinality(visited_urls["async"]) = max_pages

\* C2: within one scrape() call no URL is handed to a fetch twice: the URLs of
\* a batch are in visited before its fetches run, the tasks in flight target
\* pairwise different URLs, and the sequence of fetched URLs has no repeats.
C2_NoDuplicateFetch ==
    /\ NoRepeats(fetched)
    /\ \A h \in FinishedCalls : NoRepeats(h.fetched)
    /\ cur # "none" => SeqToSet(fetched) \subseteq visited_urls[cur]
    /\ pc = "gather" =>
          /\ \A k \in 1..Len(new_urls) : new_urls[k] \in visited_urls[cur]
          /\ \A k, l \in pending : k # l => new_urls[k] # new_urls[l]

\* two fetches in flight, in a call that has fetched before
C2_Witness ==
    /\ pc = "gather"
    /\ Cardinality(pending) = 2
    /\ Len(fetched) = 3

\* C3: the first call on a fresh synchronous scraper and the first call on a
\* fresh asynchronous scraper, with the same seed on the same site, end with
\* the same visited set and the same records.
C3_SyncAsyncSameResult ==
    (/\ Len(history["sync"]) >= 1
     /\ Len(history["async"]) >= 1
     /\ history["sync"][1].seed = history["async"][1].seed)
    => /\ history["sync"][1].visited = history["async"][1].visited
       /\ history["sync"][1].items = history["async"][1].items

\* both crawls are over, the concurrent one fetched a batch of two
C3_Witness ==
    /\ Len(history["sync"]) >= 1
    /\ Len(history["async"]) >= 1
    /\ max_concurrent = 2
    /\ Cardinality(history["async"][1].visited) = 3
    /\ Len(history["async"][1].items) >= 2

\* C4: a failed fetch never ends the crawl: no call is left by an exception,
\* a call returns only with an empty frontier or a used-up budget, and a URL
\* whose fetch failed has no record.
C4_FailureDoesNotAbort ==
    \A h \in FinishedCalls :
        /\ ~h.raised
        /\ h.frontier = <<>> \/ Cardinality(h.visited) >= max_pages
        /\ \A k \in 1..Len(h.items) : site[h.items[k].source_url].kind = "ok"

\* a call in which the second fetch failed and the third gave a record
C4_Witness ==
    \E h \in FinishedCalls :
        /\ Len(h.fetched) = 3
        /\ site[h.fetched[2]] = FetchError
        /\ \E k \in 1..Len(h.items) : h.items[k].source_url = h.fetched[3]

\* C5: a second scrape() call on the same scraper object with the same seed
\* starts from an empty visited set and visits the same URLs as the first.
C5_SecondCallSameAsFirst ==
    \A i \in Scrapers :
        (Len(history[i]) >= 2 /\ history[i][1].seed = history[i][2].seed)
        => SeqToSet(history[i][2].fetched) = SeqToSet(history[i][1].fetched)

\* C24: in scrape_async at most max_concurrent fetches are in flight, and while
\* a fetch of a batch is in flight no link is processed, no record is added and
\* no other batch is taken: the fetches of a batch are all over before its
\* results are used and before the next batch starts.
C24_BatchBarrier ==
    /\ [](Cardinality(pending) <= max_concurrent)
    /\ [](pc # "gather" => pending = {})
    /\ [][pending # {} =>
            /\ urls_to_scrape' = urls_to_scrape
            /\ items' = items
            /\ new_urls' = new_urls
            /\ pending' \subseteq pending]_vars

\* a full batch of two: one fetch is over, the other still in flight
C24_Witness ==
    /\ pc = "gather"
    /\ max_concurrent = 2
    /\ Len(new_urls) = 2
    /\ Cardinality(pending) = 1
    /\ Len(fetched) = 3

\* C25: at every iteration of the crawl loop the frontier holds no URL twice
\* and no visited URL, and every URL in it other than the seed has the seed's
\* domain and passes should_scrape_url.
C25_FrontierClean ==
    (cur # "none" /\ pc = "loop") =>
        /\ NoRepeats(urls_to_scrape)
        /\ \A k \in 1..Len(urls_to_scrape) :
             /\ urls_to_scrape[k] \notin visited_urls[cur]
             /\ urls_to_scrape[k] # source =>
                   should_scrape_url(urls_to_scrape[k], netloc(source))

\* C26: the crawl loop terminates for every link graph and every max_pages and
\* max_concurrent, and it terminates with an empty frontier or with max_pages
\* visited URLs.
C26_CrawlTerminates ==
    /\ (pc # "idle") ~> (pc = "idle")
    /\ [](\A h \in FinishedCalls :
            h.frontier = <<>> \/ Cardinality(h.visited) >= max_pages)

\* the URLs an instance has sent a request for
Requested(i) == { c.url : c \in { d \in page_calls[i] : d.request } }

\* C35: a URL whose fetch failed stays in visited and counts against the page
\* budget, and its failure is cached: an instance makes at most one request
\* per URL, and a later get_page / get_page_async call for the same URL
\* returns the cached result (soup or None) without a request and without a
\* delay.
C35_FailureCachedOneRequestPerUrl ==
    \A i \in Scrapers :
        /\ Requested(i) \subseteq visited_urls[i]
        /\ Cardinality(Requested(i)) <= max_pages
        /\ \A c \in page_calls[i] :
              /\ c.url \in DOMAIN content_cache[i]
              /\ content_cache[i][c.url] = c.result
              /\ c.request => c.n = 1
              /\ c.n > 1 => (~c.request /\ ~c.delay)

\* a failed fetch is answered from the cache on the second call, with no
\* request and no delay
C35_Witness ==
    \E i \in Scrapers : \E c \in page_calls[i] :
        /\ c.n = 2
        /\ c.result = None
        /\ ~c.request
        /\ ~c.delay
        /\ c.url \in visited_urls[i]
        /\ \E d \in page_calls[i] : d.url = c.url /\ d.n = 1 /\ d.request /\ d.result = None

-----------------------------------------------------------------------------
(* Claims about URLProcessor.process_url, checked under SpecExpand.        *)

\* C6: for a URL that matches none of the listing patterns process_url
\* returns exactly the one-element list [url], without any extraction step.
C6_NonListingReturnsItself ==
    (pu_pc = "done" /\ ~is_listing_page(pu_url))
    => (pu_result = <<pu_url>> /\ pu_log = <<>>)

\* process_url has returned for a URL with upper-case letters and no pattern
C6_Witness ==
    /\ pu_pc = "done"
    /\ ~is_listing_page(pu_url)
    /\ pu_url # Lower(pu_url)
    /\ pu_result = <<pu_url>>

-----------------------------------------------------------------------------
(* Claims about the dispatchers, checked under SpecRoute.                  *)

\* C7 as stated: both dispatchers take the first applicable route in the order
\* Drive, PDF-looking, listing page, single page.
C7_FirstApplicableRoute ==
    d_route # "none" =>
        /\ is_google_drive_url(d_url) => d_route = "drive"
        /\ (~is_google_drive_url(d_url) /\ is_pdf_url(d_url)) => d_route = "pdf"
        /\ (~is_google_drive_url(d_url) /\ ~is_pdf_url(d_url)
                /\ web_is_listing_page(d_url)) => d_route = "listing"
        /\ (~is_google_drive_url(d_url) /\ ~is_pdf_url(d_url)
                /\ ~web_is_listing_page(d_url)) => d_route = "single"

\* C7, amended: Drive before PDF before the web routes in both dispatchers; a
\* non-Drive, non-PDF listing URL goes to the listing pipeline in
\* UnifiedScraper, and in IntelligentScraper only when it holds none of the
\* individual-post patterns, with which it goes to the single-page pipeline.
C7_RouteOrder ==
    d_route # "none" =>
        /\ is_google_drive_url(d_url) => d_route = "drive"
        /\ (~is_google_drive_url(d_url) /\ is_pdf_url(d_url)) => d_route = "pdf"
        /\ (~is_google_drive_url(d_url) /\ ~is_pdf_url(d_url)
                /\ web_is_listing_page(d_url)
                /\ (d_who = "unified" \/ ~HasPostPattern(d_url))) => d_route = "listing"
        /\ (~is_google_drive_url(d_url) /\ ~is_pdf_url(d_url)
                /\ web_is_listing_page(d_url)
                /\ d_who = "intelligent" /\ HasPostPattern(d_url)) => d_route = "single"
        /\ (~is_google_drive_url(d_url) /\ ~is_pdf_url(d_url)
                /\ ~web_is_listing_page(d_url)) => d_route = "single"

\* IntelligentScraper got a listing URL with an individual-post pattern
C7_Witness ==
    /\ d_who = "intelligent"
    /\ ~is_google_drive_url(d_url)
    /\ ~is_pdf_url(d_url)
    /\ web_is_listing_page(d_url)
    /\ HasPostPattern(d_url)
    /\ d_route = "single"

-----------------------------------------------------------------------------
(* Claims about the page scraper, checked under SpecPage.                  *)

EventsOf(kind) == SelectSeq(sp_events, LAMBDA e : e.ev = kind)

StaticGets == EventsOf("get")

StaticReturns == EventsOf("static_return")

\* the position of the first event of a kind, 0 when there is none
FirstIndex(kind) ==
    LET at == { k \in 1..Len(sp_events) : sp_events[k].ev = kind }
    IN IF at = {} THEN 0 ELSE CHOOSE k \in at : \A j \in at : k <= j

\* C8: a rendered fetch starts only after the static fetch of the URL has been
\* attempted and has yielded empty content: every render of a call is preceded
\* by the return of _scrape_html with None or with empty content.
C8_RenderOnlyAfterEmptyStatic ==
    \A k \in 1..Len(sp_events) :
        sp_events[k].ev = "render" =>
            /\ FirstIndex("static_return") \in 1..(k - 1)
            /\ sp_events[FirstIndex("static_return")].out \in {"none", "empty"}

Is200(get) == get.out \in {"ok_content", "ok_empty", "ok_readfail"}

BodyRead(get) == get.out \in {"ok_content", "ok_empty"}

\* C9 as stated: at most max_retries GETs, none after the first 200 response,
\* whose parsed content is returned, and None exactly when all max_retries
\* attempts raised or had a status other than 200.
C9_StopsAtFirst200 ==
    /\ Len(StaticGets) <= max_retries
    /\ \A k \in 1..Len(StaticGets) :
         Is200(StaticGets[k]) =>
            /\ k = Len(StaticGets)
            /\ Len(StaticReturns) = 1
            /\ StaticReturns[1].out \in {"content", "empty"}
    /\ Len(StaticReturns) = 1 =>
         (StaticReturns[1].out = "none"
            <=> /\ Len(StaticGets) = max_retries
                /\ \A k \in 1..Len(StaticGets) : ~BodyRead(StaticGets[k]))

\* C9: _scrape_html issues at most max_retries GETs, stops at the first attempt
\* that gets status 200 and reads and parses the body without an exception,
\* returns the content of that attempt, and returns None exactly when every one
\* of the max_retries attempts raised (in the request or while the body was
\* read) or had a status other than 200.
C9_StopsAtFirstReadBody ==
    /\ Len(StaticGets) <= max_retries
    /\ \A k \in 1..Len(StaticGets) :
         BodyRead(StaticGets[k]) =>
            /\ k = Len(StaticGets)
            /\ Len(StaticReturns) = 1
            /\ StaticReturns[1].out =
                 (IF StaticGets[k].out = "ok_content" THEN "content" ELSE "empty")
    /\ Len(StaticReturns) = 1 =>
         (StaticReturns[1].out = "none"
            <=> /\ Len(StaticGets) = max_retries
                /\ \A k \in 1..Len(StaticGets) : ~BodyRead(StaticGets[k]))

\* the body of a 200 response could not be read, the next attempt succeeded
C9_Witness ==
    /\ Len(StaticReturns) = 1
    /\ StaticReturns[1].out = "content"
    /\ Len(StaticGets) = 2
    /\ StaticGets[1].out = "ok_readfail"
    /\ max_retries = 3

\* the browser of a render could not be launched during this call
LaunchFailed ==
    \E k \in 1..Len(sp_events) :
        sp_events[k].ev = "render" /\ sp_events[k].out = "launch_fail"

\* C23: when the render engine cannot be opened the failure propagates to the
\* top-level caller and ends the run: the call does not end with the result of
\* a failed URL (None or []), and the scraper is not called for a next URL.
C23_LaunchFailureEndsRun ==
    LaunchFailed => sp_result # "nothing" /\ sp_pc # "idle"

\* C29: between two consecutive attempts of the static fetch there is a backoff
\* sleep of delay * attempt, whether the earlier attempt raised or had a status
\* other than 200: the GET of attempt n + 1 directly follows the backoff of
\* attempt n.
C29_BackoffBetweenAttempts ==
    \A k \in 1..Len(sp_events) :
        (sp_events[k].ev = "get" /\ sp_events[k].n > 1) =>
            /\ k > 1
            /\ sp_events[k - 1].ev = "backoff"
            /\ sp_events[k - 1].n = sp_events[k].n - 1

\* C30: every static HTTP request is accompanied by a politeness delay: a call
\* that has made a static request and has returned has slept at least once.
C30_DelayWithEveryStaticRequest ==
    (sp_pc = "done" /\ StaticGets # <<>>) =>
        \E k \in 1..Len(sp_events) : sp_events[k].ev \in {"delay", "backoff"}

\* the renders of _scrape_javascript in this call (a render of
\* _scrape_listing_page comes without a static fetch before it)
JsRenders ==
    IF StaticReturns = <<>> THEN <<>> ELSE EventsOf("render")

\* C31: _scrape_javascript makes exactly one render attempt per call; an
\* exception raised during it is captured and returned as None, never handed
\* to the caller and never followed by a second attempt.
C31_OneRenderNoRetry ==
    /\ Len(JsRenders) <= 1
    /\ (JsRenders # <<>> /\ JsRenders[1].out \in {"launch_fail", "raise"}) =>
          /\ sp_content = "none"
          /\ sp_events[Len(sp_events)] = JsRenders[1]
          /\ sp_result \in {"unset", "nothing"}

\* the one render of a call raised and the call returned without a record
C31_Witness ==
    /\ sp_pc = "done"
    /\ sp_entry = "scrape_page"
    /\ Len(JsRenders) = 1
    /\ JsRenders[1].out = "raise"
    /\ sp_result = "nothing"
    /\ Len(StaticGets) = 2

-----------------------------------------------------------------------------
(* Claims about the normalizer, checked under SpecClean.                   *)

\* C10: normalization is idempotent: a second call of _clean_content leaves
\* the result of the first call as it is, clean(clean(x)) = clean(x).
C10_Idempotent ==
    cl_passes >= 2 => cl_content = cl_prev

-----------------------------------------------------------------------------
(* Claims about the output formatter, checked under SpecFormat.            *)

\* the items the loop of format_output has been through
Formatted == { fo_items[k] : k \in 1..fo_i }

FormattedItems == { fo_formatted[j] : j \in 1..Len(fo_formatted) }

\* C11: format_output excludes every item whose content is shorter than
\* MIN_CONTENT_LENGTH, whatever its other fields: no item of the result is
\* short, and none is the formatted form of a short item of the input.
C11_ShortContentExcluded ==
    /\ \A out \in FormattedItems : Len(out.content) >= MIN_CONTENT_LENGTH
    /\ \A item \in Formatted :
         Len(Get(item, "content", <<>>)) < MIN_CONTENT_LENGTH
            => formatted_item(item) \notin FormattedItems

\* an item with a title, a source_url and 49 characters of content was
\* dropped, the item given with it was kept
C11_Witness ==
    /\ fo_pc = "done"
    /\ Len(fo_items) = 2
    /\ Len(fo_formatted) = 1
    /\ \E item \in Formatted :
         /\ {"title", "content", "source_url"} \subseteq item.has
         /\ item.title = <<"T">>
         /\ item.source_url = <<"u">>
         /\ item.content = Rep("a", MIN_CONTENT_LENGTH - 1)

\* C12: every item of the result of format_output has a non-empty title, a
\* non-empty content and a non-empty source_url.
C12_RequiredFieldsNonEmpty ==
    \A out \in FormattedItems :
        /\ out.title # <<>>
        /\ out.content # <<>>
        /\ out.source_url # <<>>

\* C13: every item of the result of format_output has a content_type of the
\* closed set, whatever the content_type of the input item, present or missing.
C13_ContentTypeInClosedSet ==
    \A out \in FormattedItems : out.content_type \in valid_content_types

\* an item whose content_type is no key of the mapping and contains none was
\* kept, as 'other'
C13_Witness ==
    /\ fo_pc = "done"
    /\ \E k \in 1..Len(fo_items) :
         /\ "content_type" \in fo_items[k].has
         /\ fo_items[k].content_type = <<"v", "i", "d", "e", "o">>
         /\ formatted_item(fo_items[k]) \in FormattedItems
         /\ formatted_item(fo_items[k]).content_type = Str_other

-----------------------------------------------------------------------------
(* Claims about the classifier, checked under SpecClassify.                *)

\* the order of the categories, as the claim states it
ClaimedOrder ==
    <<"blog", "podcast_transcript", "linkedin_post", "reddit_comment", "book",
      "call_transcript">>

\* the patterns of a category, looked up by its name
PatternsOf(content_type) ==
    LET k == CHOOSE k \in 1..Len(CONTENT_TYPE_PATTERNS) :
                 CONTENT_TYPE_PATTERNS[k].content_type = content_type
    IN CONTENT_TYPE_PATTERNS[k].patterns

\* some pattern of the category occurs in the lower-cased URL or title
Matches(content_type) ==
    \E p \in 1..Len(PatternsOf(content_type)) :
        \/ Contains(Lower(ct_url), PatternsOf(content_type)[p])
        \/ Contains(Lower(ct_title), PatternsOf(content_type)[p])

\* the result is the first category of the claimed order that matches, and
\* 'other' exactly when none matches
FirstMatchWins ==
    /\ ct_result \in {ClaimedOrder[k] : k \in 1..Len(ClaimedOrder)} \cup {"other"}
    /\ ct_result = "other" <=> \A k \in 1..Len(ClaimedOrder) : ~Matches(ClaimedOrder[k])
    /\ \A k \in 1..Len(ClaimedOrder) :
         ct_result = ClaimedOrder[k] =>
            /\ Matches(ClaimedOrder[k])
            /\ \A j \in 1..(k - 1) : ~Matches(ClaimedOrder[j])

PodcastTranscriptUrl ==
    /\ Contains(Lower(ct_url), <<"p", "o", "d", "c", "a", "s", "t">>)
    /\ Contains(Lower(ct_url), <<"t", "r", "a", "n", "s", "c", "r", "i", "p", "t">>)
    /\ ct_title = <<>>

-----------------------------------------------------------------------------
(* Claims about the chunker, checked under SpecChunk.                      *)

\* C15: every chunk returned by _chunk_text, except possibly the last, has
\* length at most chunk_size + chunk_overlap.
C15_ChunkLengthBound ==
    ch_pc = "done" =>
        \A k \in 1..(Len(final_chunks) - 1) :
            Len(final_chunks[k]) <= chunk_size + chunk_overlap

\* C16: chunking loses no text: every sentence of the cleaned text occurs in
\* the returned chunks (as it must, if the chunks without their overlaps give
\* back the text).
C16_EverySentenceInSomeChunk ==
    ch_pc = "done" =>
        \A k \in 1..Len(ch_sentences) :
            \E c \in 1..Len(final_chunks) : Contains(final_chunks[c], ch_sentences[k])

\* C17: the text seeded into a new chunk consists of the last sentences of the
\* chunk that was just finalized and is at most chunk_overlap characters long
\* (the space that separates it from the next sentence not counted).
C17_SeedIsTailOfPreviousChunk ==
    \A k \in 1..Len(ch_seeds) :
        /\ EndsWith(ch_seeds[k].chunk, Strip(ch_seeds[k].overlap_text))
        /\ Len(Strip(ch_seeds[k].overlap_text)) <= chunk_overlap

-----------------------------------------------------------------------------
(* More claims about process_url, checked under SpecExpand.                *)

ListingDone == pu_pc = "done" /\ is_listing_page(pu_url)

\* C18: for a listing seed, rendered extraction is attempted if and only if
\* static extraction found fewer than 5 valid links, and the result holds every
\* link found by static extraction, by rendered extraction and by pagination,
\* each exactly once.
C18_JsIffFewAndUnion ==
    /\ (pu_pc \in {"pagination", "done"} /\ is_listing_page(pu_url))
         => (InSeq("js", pu_log) <=> Cardinality(pu_html) < 5)
    /\ ListingDone =>
         /\ SeqToSet(pu_result) = pu_html \cup pu_js \cup pu_paginated
         /\ NoRepeats(pu_result)

\* the three extractions all found links, one of them found twice
C18_Witness ==
    /\ ListingDone
    /\ InSeq("js", pu_log)
    /\ pu_html \cap pu_js # {}
    /\ pu_paginated \ (pu_html \cup pu_js) # {}
    /\ Len(pu_result) = Cardinality(pu_html \cup pu_js \cup pu_paginated)

\* C19: every URL returned by process_url for a listing seed has the domain of
\* the seed, a path that is neither empty nor '/', and no skip pattern, whether
\* static extraction, rendered extraction or a pagination page gave it.
C19_ReturnedUrlsAreValid ==
    ListingDone =>
        \A k \in 1..Len(pu_result) :
            /\ url_netloc(pu_result[k]) = url_netloc(pu_url)
            /\ url_path(pu_result[k]) \notin {<<>>, <<"/">>}
            /\ \A pat \in SKIP_URL_PATTERNS : ~Contains(Lower(pu_result[k]), pat)

\* all three extractions gave URLs; of the two links of the pagination page
\* the one with '/page/' was left out
C19_Witness ==
    /\ ListingDone
    /\ pu_html # {}
    /\ pu_js # {}
    /\ pu_paginated = { <<"h", "t", "t", "p", "s", ":", "/", "/", "x", ".", "i", "o", "/", "b", "l", "o", "g", "/", "p", "6">> }
    /\ Len(pu_result) >= 3

\* C27: pagination probing stops after the first page number whose links add
\* no URL beyond those already known from the initial extraction and from the
\* earlier pagination pages: such a page is the last one probed.
C27_StopsWhenPageAddsNothing ==
    \A k \in 1..Len(pu_probes) :
        (pu_probes[k].candidates # {} /\ pu_probes[k].added = {})
            => k = Len(pu_probes)

\* C28: pagination probing goes through the page numbers 1, 2, ... in
\* increasing order, never probes a page number above max_pages, and the first
\* page number without an existing candidate URL is the last one probed.
C28_ProbesInOrderWithinMaxPages ==
    /\ Len(pu_probes) <= pu_max_pages
    /\ \A k \in 1..Len(pu_probes) :
         /\ pu_probes[k].page = k
         /\ pu_probes[k].candidates = {} => k = Len(pu_probes)

\* page 1 existed and gave a new URL, page 2 did not exist, page 3 was allowed
C28_Witness ==
    /\ ListingDone
    /\ pu_max_pages = 3
    /\ Len(pu_probes) = 2
    /\ pu_probes[1].added # {}
    /\ pu_probes[2].candidates = {}

-----------------------------------------------------------------------------
(* Claims about the Drive pipeline, checked under SpecDrive.               *)

RECURSIVE ConcatItems(_, _)
ConcatItems(runs, k) ==
    IF k > Len(runs) THEN <<>> ELSE runs[k].items \o ConcatItems(runs, k + 1)

\* C20: for a Drive URL the PDF pipeline is run once on every URL returned by
\* extract_pdf_urls, in resolution order, and the returned records are the
\* concatenation of the per-URL results in that order.
C20_PdfPipelinePerResolvedUrl ==
    gd_pc = "done" =>
        /\ [k \in 1..Len(gd_runs) |-> gd_runs[k].pdf_url] = gd_pdf_urls
        /\ all_items = ConcatItems(gd_runs, 1)

-----------------------------------------------------------------------------
(* Claims about the PDF pipeline, checked under SpecPdf.                   *)

Downloaded == pdf_pc \in {"downloaded", "chunk", "done"}

LastGet == pdf_gets[Len(pdf_gets)]

\* the last GET answered 200 with an accepted content type or a URL in '.pdf'
LastGetAccepted ==
    /\ pdf_gets # <<>>
    /\ LastGet.outcome = "status_200"
    /\ \/ Contains(Lower(LastGet.content_type), Str_pdf)
       \/ Contains(Lower(LastGet.content_type), Str_octet)
       \/ EndsWith(Lower(pdf_link), Str_dotpdf)

\* C21: _download_pdf makes at most max_retries GETs; it returns bytes only for
\* a 200 response with a content type holding 'pdf' or 'octet-stream' or a URL
\* ending in '.pdf', and failure (None) in every other outcome.
C21_DownloadBoundedAndGuarded ==
    /\ Len(pdf_gets) <= pdf_max_retries
    /\ Downloaded =>
         /\ pdf_content \in {"bytes", "empty", "None"}
         /\ pdf_content \in {"bytes", "empty"} =>
               LastGetAccepted /\ LastGet.read = pdf_content
         /\ ~(LastGetAccepted /\ LastGet.read \in {"bytes", "empty"}) =>
               pdf_content = "None"

\* bytes came back under a content type that is no PDF, for a URL in '.pdf'
C21_Witness ==
    /\ Downloaded
    /\ pdf_content = "bytes"
    /\ Len(pdf_gets) = pdf_max_retries
    /\ Len(pdf_gets) > 1
    /\ ~Contains(Lower(LastGet.content_type), Str_pdf)
    /\ ~Contains(Lower(LastGet.content_type), Str_octet)

\* C22: scrape_pdf never raises; when the download fails or is refused, or the
\* extraction yields no text, it returns the empty list.
C22_ScrapePdfNeverRaises ==
    /\ pdf_result.kind # "raise"
    /\ pdf_pc = "done" =>
         /\ pdf_result.kind = "return"
         /\ (pdf_content # "bytes" \/ text_content.none) => pdf_result.items = <<>>

\* bytes were downloaded, no library read a text from them, and the empty list
\* came back
C22_Witness ==
    /\ pdf_pc = "done"
    /\ pdf_content = "bytes"
    /\ text_content.none
    /\ pdf_result = [kind |-> "return", items |-> <<>>]

-----------------------------------------------------------------------------
(* Claims about the command-line run, checked under SpecMain.              *)

MainFinished == mn_pc \in {"done", "crashed"}

\* C32: every session a scraper component opens, in __aenter__ or lazily, is
\* closed on every exit path of the run: when main() has finished no opened
\* session is still open.
C32_NoSessionLeftOpen ==
    MainFinished => mn_open = {}

\* the sessions opened by the context manager are closed when main() ends
C32_ContextManagedClosed ==
    MainFinished => \A o \in ContextManaged : mn_session[o] \notin mn_open

C32_ContextManagedClosedWitness ==
    /\ mn_pc = "crashed"
    /\ \A o \in ContextManaged : mn_session[o] # 0
    /\ Len(mn_runs) = 2

-----------------------------------------------------------------------------
(* One more claim about the chunker, checked under SpecChunk.              *)

\* C33: a chunk shorter than the minimum size is never emitted and never
\* discarded: its text is appended to the preceding emitted chunk.
C33_ShortChunkAppended ==
    ch_pc = "done" =>
        /\ \A c \in 1..Len(final_chunks) : Len(final_chunks[c]) >= MinChunkSize
        /\ \A k \in 1..Len(ch_chunks) :
               Len(ch_chunks[k]) < MinChunkSize =>
                   \E c \in 1..Len(final_chunks) :
                       EndsWith(final_chunks[c], <<" ">> \o ch_chunks[k])
                       \/ Contains(final_chunks[c], <<" ">> \o ch_chunks[k] \o <<" ">>)

\* a short chunk that follows an emitted chunk is appended to it
C33_ShortAfterEmittedAppended ==
    ch_pc = "done" =>
        \A k \in 2..Len(ch_chunks) :
            (Len(ch_chunks[k]) < MinChunkSize /\ Len(ch_chunks[1]) >= MinChunkSize) =>
                \E c \in 1..Len(final_chunks) :
                    Contains(final_chunks[c], <<" ">> \o ch_chunks[k])

C33_ShortAfterEmittedWitness ==
    /\ ch_pc = "done"
    /\ Len(ch_chunks) = 2
    /\ Len(ch_chunks[1]) >= MinChunkSize
    /\ Len(ch_chunks[2]) < MinChunkSize
    /\ Len(final_chunks) = 1

-----------------------------------------------------------------------------
(* The listing test of process_url, checked under SpecExpand.              *)

\* the path of the URL holds one of the nine listing substrings
PathHasListingPattern(url) ==
    \E pat \in ListingPatterns : Contains(Lower(url_path(url)), pat)

\* process_url has taken its URL for a listing page
TakenAsListing ==
    \/ pu_pc \notin {"idle", "done"}
    \/ pu_pc = "done" /\ pu_log # <<>>

\* C34: whether a URL is a listing page depends only on its path: a URL whose
\* path holds none of the nine listing substrings is not taken for a listing
\* page, whatever its host, query string or fragment.
C34_ListingDependsOnPathOnly ==
    (pu_pc # "idle" /\ ~PathHasListingPattern(pu_url)) => ~TakenAsListing

\* a URL whose path holds a listing substring is taken for a listing page
C34_PathPatternIsListing ==
    (pu_pc # "idle" /\ PathHasListingPattern(pu_url)) => TakenAsListing

\* C36: scrape_multiple_urls processes every input URL exactly once, in input
\* order, whatever the outcome of earlier URLs, and returns the concatenation
\* of the per-URL record lists in that order; a URL whose processing fails
\* adds no records and does not stop the loop.
C36_EveryUrlOnceInOrder ==
    /\ Len(mn_runs) <= Len(all_page_urls)
    /\ \A k \in 1..Len(mn_runs) :
          /\ mn_runs[k].url = all_page_urls[k]
          /\ mn_runs[k].out # "records" => mn_runs[k].items = <<>>
    /\ scraped_items = ConcatItems(mn_runs, 1)
    /\ mn_pc \in {"save", "done", "crashed"} => Len(mn_runs) = Len(all_page_urls)

\* the first URL raised, the second failed, the third gave its records, and
\* the loop has returned them
C36_Witness ==
    /\ mn_pc = "done"
    /\ Len(mn_runs) = 3
    /\ mn_runs[1].out = "raise"
    /\ mn_runs[2].out = "failed"
    /\ mn_runs[3].out = "records"
    /\ scraped_items = ItemsOf(all_page_urls[3])

-----------------------------------------------------------------------------
(* The failures of process_url, checked under SpecExpand.                  *)

Failed(kind) == [call |-> kind, ok |-> FALSE] \in pu_calls

Succeeded(kind) == [call |-> kind, ok |-> TRUE] \in pu_calls

\* C37: process_url never raises, whatever GET, HEAD and render calls fail:
\* each failed call contributes an empty set of links, and for a listing seed
\* on which every call fails the result is the empty list (the seed itself is
\* not returned).
C37_NeverRaisesFailuresGiveNothing ==
    /\ pu_pc # "raised"
    /\ Failed("html") => pu_html = {}
    /\ Failed("js") => pu_js = {}
    /\ ~Succeeded("page") => pu_paginated = {}
    /\ (pu_pc = "done" /\ is_listing_page(pu_url)
            /\ \A c \in pu_calls : ~c.ok) => pu_result = <<>>

\* the GET, the render and the HEAD checks of a listing seed all failed and
\* process_url returned the empty list
C37_Witness ==
    /\ pu_pc = "done"
    /\ is_listing_page(pu_url)
    /\ pu_calls = {[call |-> "html", ok |-> FALSE], [call |-> "js", ok |-> FALSE],
                   [call |-> "head", ok |-> FALSE]}
    /\ pu_result = <<>>

\* a pagination page whose GET failed, after the seed's own GET succeeded
C37_WitnessPageFailed ==
    /\ pu_pc = "done"
    /\ Succeeded("html")
    /\ Failed("page")
    /\ ~Succeeded("page")
    /\ pu_paginated = {}
    /\ pu_result # <<>>

-----------------------------------------------------------------------------
(* One more claim about the output formatter, checked under SpecFormat.    *)

\* C38: the content-type mapping is the identity on the closed content-type
\* set: an item whose content_type is one of the seven values is formatted
\* with that value, so mapping twice gives the same as mapping once.
C38_MappingIdentityOnClosedSet ==
    \A item \in Formatted :
        ("content_type" \in item.has /\ item.content_type \in valid_content_types)
            => /\ formatted_item(item).content_type = item.content_type
               /\ map_content_type(formatted_item(item).content_type)
                      = formatted_item(item).content_type

\* the mapping is idempotent: mapping its result again changes nothing
C38_MappingIdempotent ==
    \A item \in Formatted :
        map_content_type(formatted_item(item).content_type)
            = formatted_item(item).content_type

-----------------------------------------------------------------------------
(* Claims about the listing-page scrape, checked under SpecCards.          *)

\* C39: the records emitted by one listing-page scrape have pairwise distinct
\* source_url: a URL already in processed_urls is never extracted again, also
\* when several cards lead to it or when the card list is re-read after
\* navigating back.
C39_DistinctSourceUrls ==
    /\ \A j, k \in 1..Len(ls_items) :
          j # k => ls_items[j].source_url # ls_items[k].source_url
    /\ ls_pc = "cards" => { ls_items[k].source_url : k \in 1..Len(ls_items) } = processed_urls

\* two cards that lead to the same post were both clicked, in a scrape that
\* returned two records
C39_Witness ==
    /\ ls_pc = "done"
    /\ {"k1", "k2"} \subseteq processed_cards
    /\ Len(ls_items) = 2
    /\ processed_urls = {"/blog/a", "/blog/b"}

====
